---- MODULE Spec2Model ----
(***************************************************************************)
(* Squad selection engine of fpl-agent: the 0/1 squad optimizers           *)
(* (SquadOptimizer, SquadOptimizerWithHistory, PreseasonSquadOptimizer),   *)
(* the line-up selection (select_starting_eleven, optimize_starting_xi,    *)
(* _order_bench) and the scoring model (_calculate_*_score).               *)
(*                                                                         *)
(* Money is kept in tenths of a million, as Player.now_cost does; the      *)
(* budget (a float of millions in the source) is kept in the same unit.    *)
(* Sub-scores are kept in hundredths of a point, weights in hundredths.    *)
(***************************************************************************)
EXTENDS Integers, Sequences, FiniteSets, TLC

VARIABLES
  players,      \* the candidate list handed to the call (ids, list order = id order)
  player,       \* id -> Player record (element_type, team, now_cost, ...)
  scores,       \* id -> total_score (the scores / predictions dict of the call)
  budget,       \* budget of the call, in tenths
  formationIn,  \* squad.formation read by optimize_starting_xi
  status,       \* solver status of the last prob.solve()
  returned,     \* what the call handed to its caller: "none" before, then "Squad" / "Lineup"
  selected,     \* squad.players of the returned Squad
  starting_11,  \* starters of the returned line-up (sequence of ids)
  bench,        \* bench order of the returned line-up (sequence of ids)
  formation,    \* formation of the returned line-up (<<>> models None)
  call,         \* which operation ran
  pc,
  cand,         \* scoring pass: the candidate (player, its raw data, its history, the fixtures)
  weights,      \* scoring pass: self.weights of the optimizer instance
  ps,           \* scoring pass: the PlayerScore stored in scores[player.id]
  calls,            \* optimize_initial_squad: calls made on the optimizer instance
  player_histories, \* self.player_histories of the optimizer instance (id -> summary)
  fetched,          \* ids whose history fetch succeeded in the current call
  client_cache,     \* FPLClient._cache of the client of the current call (cache keys)
  requests,         \* GET requests sent by the client of the current call, in order
  squad,            \* transfers: current_squad.players (list of ids)
  free_transfers,   \* transfers: the free_transfers argument
  wildcard_active,  \* transfers: the wildcard_active argument
  free_hit_active,  \* transfers: the free_hit_active argument
  candidates,       \* transfers: the list returned by evaluate_transfers
  new_squad,        \* transfers: players and free_transfers of the Squad execute_transfers returns
  executed_transfers, \* transfers: the Transfer list execute_transfers returns
  ownership_data,   \* captaincy: the ownership_data argument (id -> percent, None when absent)
  triple_captain_active, \* captaincy: the triple_captain_active argument
  captain,          \* captaincy: the CaptainChoice returned as captain
  vice_captain,     \* captaincy: the CaptainChoice returned as vice-captain
  gameweek,         \* chips: the gameweek argument
  chips_used,       \* chips: TeamManager.chips_used (list of ChipUsage)
  team_issues,      \* chips: len(team_issues)
  gw_fixtures,      \* chips and captaincy: the fixtures argument
  recommendation,   \* chips: what evaluate_chip_usage returned (a list of 0 or 1)
  batching,         \* history fetch: position of the batch loop and its request counters
  session,          \* FPLClient.session: "none", "open" or "closed"
  owned_session,    \* FPLClient._owned_session
  open_blocks,      \* "async with" blocks of the client that are entered and not left
  sent_on,          \* state of the session on which the last request was issued
  now,              \* time.time(), in seconds
  cache_expiry,     \* FPLClient._cache_expiry (cache key -> time); _cache has the same keys
  last_call         \* the last _make_request call: key, outcome, time

scoreVars == << cand, weights, ps >>

callVars == << calls, player_histories, fetched, client_cache, requests >>

transferVars == << squad, free_transfers, wildcard_active, free_hit_active,
                   candidates, new_squad, executed_transfers >>

captainVars == << ownership_data, triple_captain_active, captain, vice_captain >>

chipVars == << gameweek, chips_used, team_issues, gw_fixtures, recommendation >>

batchVars == << batching >>

sessionVars == << session, owned_session, open_blocks, sent_on >>

cacheVars == << now, cache_expiry, last_call >>

laterVars == << batchVars, sessionVars, cacheVars >>

extVars == << callVars, transferVars, captainVars, chipVars, laterVars >>

notCallVars == << transferVars, captainVars, chipVars, laterVars >>

optimizerVars == << players, player, scores, budget, formationIn, status, returned,
                    selected, starting_11, bench, formation, call >>

vars == << players, player, scores, budget, formationIn, status, returned,
           selected, starting_11, bench, formation, call, pc, cand, weights, ps,
           extVars >>

----------------------------------------------------------------------------
(* Program constants (src/utils/constants.py) *)

GOALKEEPER == 1
DEFENDER == 2
MIDFIELDER == 3
FORWARD == 4
Position == {GOALKEEPER, DEFENDER, MIDFIELDER, FORWARD}

SQUAD_SIZE == 15
MAX_PLAYERS_PER_TEAM == 3
INITIAL_BUDGET == 1000
STARTING_XI_SIZE == 11

SQUAD_REQUIREMENTS ==
  (GOALKEEPER :> 2) @@ (DEFENDER :> 5) @@ (MIDFIELDER :> 5) @@ (FORWARD :> 3)

VALID_FORMATIONS ==
  << <<1, 3, 4, 3>>, <<1, 3, 5, 2>>, <<1, 4, 3, 3>>, <<1, 4, 4, 2>>,
     <<1, 4, 5, 1>>, <<1, 5, 3, 2>>, <<1, 5, 4, 1>>, <<1, 5, 2, 3>> >>

\* a formation that is None
None == <<>>
\* chance_of_playing_this_round = None
NoChance == -1

\* the values of the variables of the operations that a specification leaves out
IdleCall ==
  /\ calls = 0
  /\ player_histories = << >>
  /\ fetched = {}
  /\ client_cache = {}
  /\ requests = << >>

IdleSquad == squad = << >>

IdleTransfer ==
  /\ free_transfers = 0
  /\ wildcard_active = FALSE
  /\ free_hit_active = FALSE
  /\ candidates = << >>
  /\ new_squad = [ players |-> << >>, free_transfers |-> 0 ]
  /\ executed_transfers = << >>

IdleCaptain ==
  /\ ownership_data = << >>
  /\ triple_captain_active = FALSE
  /\ captain = << >>
  /\ vice_captain = << >>

IdleChips ==
  /\ gameweek = 0
  /\ chips_used = << >>
  /\ team_issues = 0
  /\ recommendation = << >>

IdleFixtures == gw_fixtures = << >>

IdleBatching == batching = << >>

IdleSession ==
  /\ session = "none"
  /\ owned_session = FALSE
  /\ open_blocks = 0
  /\ sent_on = "none"

IdleCache ==
  /\ now = 0
  /\ cache_expiry = << >>
  /\ last_call = << >>

IdleLater == IdleBatching /\ IdleSession /\ IdleCache

IdleExt ==
  /\ IdleCall /\ IdleSquad /\ IdleTransfer /\ IdleCaptain /\ IdleChips /\ IdleFixtures
  /\ IdleLater

----------------------------------------------------------------------------
(* Bounds of the model *)

\* candidates beyond the two goalkeepers / five defenders a squad needs
ExtraGK == 1
ExtraDEF == 1
\* how far from "no variable set" / "every variable set" the explored
\* leftover assignments of a solve without optimal solution are
LeftoverBound == 1

----------------------------------------------------------------------------
(* Generic helpers *)

Min(a, b) == IF a <= b THEN a ELSE b
Max(a, b) == IF a >= b THEN a ELSE b

RECURSIVE SumOver(_, _)
SumOver(S, f) ==
  IF S = {} THEN 0
  ELSE LET x == CHOOSE y \in S : TRUE IN f[x] + SumOver(S \ {x}, f)

RECURSIVE SumSeq(_, _)
SumSeq(s, f) == IF s = <<>> THEN 0 ELSE f[Head(s)] + SumSeq(Tail(s), f)

Range(s) == { s[i] : i \in 1..Len(s) }

\* the list of the ids of S in list order (ascending id)
RECURSIVE ListOf(_)
ListOf(S) ==
  IF S = {} THEN <<>>
  ELSE LET m == CHOOSE x \in S : \A y \in S : x <= y
       IN <<m>> \o ListOf(S \ {m})

\* list.sort(key=..., reverse=True): stable, descending
RECURSIVE InsertDesc(_, _, _)
InsertDesc(sorted, x, key) ==
  IF sorted = <<>> THEN <<x>>
  ELSE IF key[Head(sorted)] >= key[x]
       THEN <<Head(sorted)>> \o InsertDesc(Tail(sorted), x, key)
       ELSE <<x>> \o sorted

RECURSIVE SortDesc(_, _)
SortDesc(s, key) ==
  IF s = <<>> THEN <<>>
  ELSE InsertDesc(SortDesc(SubSeq(s, 1, Len(s) - 1), key), s[Len(s)], key)

\* s[:n]
Take(s, n) == SubSeq(s, 1, Min(n, Len(s)))
\* s[n:]
Drop(s, n) == SubSeq(s, Min(n, Len(s)) + 1, Len(s))

\* the k-element subsets of S
RECURSIVE KSubsets(_, _)
KSubsets(S, k) ==
  IF k = 0 THEN {{}}
  ELSE IF Cardinality(S) < k THEN {}
  ELSE LET x == CHOOSE y \in S : TRUE
       IN { T \cup {x} : T \in KSubsets(S \ {x}, k - 1) } \cup KSubsets(S \ {x}, k)

----------------------------------------------------------------------------
(* Candidate pools of the optimizer calls.  An id is 10 * element_type + k. *)

PlayerId(pos, k) == 10 * pos + k
Idx(p) == p % 10

GKIds == { PlayerId(GOALKEEPER, k) : k \in 1..(2 + ExtraGK) }
DEFIds == { PlayerId(DEFENDER, k) : k \in 1..(5 + ExtraDEF) }
MIDIds == { PlayerId(MIDFIELDER, k) : k \in 1..5 }
FWDIds == { PlayerId(FORWARD, k) : k \in 1..3 }
AllIds == GKIds \cup DEFIds \cup MIDIds \cup FWDIds

BaseIds == { p \in AllIds : Idx(p) <= SQUAD_REQUIREMENTS[p \div 10] }
ExtraIds == AllIds \ BaseIds

CostProfiles == {"flat70", "cheap45", "tier1", "tier2", "tier3", "tier4"}
\* what differs from the plain pool (scores = prices, teams spread, everyone
\* a regular starter): the scores, the teams or the minutes
Variations == {"plain", "flat", "gkalt", "clustered", "overloaded", "few"}
Budgets == {INITIAL_BUDGET, 1050}

At(tbl, k, dflt) == IF k <= Len(tbl) THEN tbl[k] ELSE dflt

GKCost(cp, k) ==
  CASE cp = "tier1" -> At(<<50, 40, 45>>, k, 45)
    [] cp = "tier2" -> At(<<40, 40, 42>>, k, 45)
    [] cp = "tier3" -> At(<<120, 40, 40>>, k, 45)
    [] OTHER        -> At(<<45, 50, 55>>, k, 45)

CostOf(cp, p) ==
  CASE cp = "flat70"  -> 70
    [] cp = "cheap45" -> 45
    [] OTHER ->
         CASE p \div 10 = GOALKEEPER -> GKCost(cp, Idx(p))
           [] p \div 10 = DEFENDER   -> At(<<70, 55, 50, 50, 40>>, Idx(p), 45)
           [] p \div 10 = MIDFIELDER -> At(<<125, 100, 80, 60, 45>>, Idx(p), 45)
           [] OTHER                  -> At(<<105, 75, 60>>, Idx(p), 45)

TeamOf(v, p) ==
  IF v = "clustered" /\ p \div 10 = DEFENDER /\ (Idx(p) <= 3 \/ Idx(p) > 5) THEN 9
  ELSE IF v = "overloaded" /\ p \div 10 = MIDFIELDER /\ Idx(p) <= 4 THEN 9
  ELSE ((Idx(p) + 2 * (p \div 10)) % 7) + 1

\* players that are not "regular starters" under the "few" profile
Doubtful == { PlayerId(DEFENDER, 1), PlayerId(DEFENDER, 2), PlayerId(FORWARD, 1),
              PlayerId(MIDFIELDER, 2) }
Unplayed == { PlayerId(MIDFIELDER, 1) }

MakePlayer(cp, v, p, pts) ==
  [ element_type |-> p \div 10,
    team |-> TeamOf(v, p),
    now_cost |-> CostOf(cp, p),
    total_points |-> pts,
    minutes |-> IF v = "few" /\ p \in Unplayed THEN 0 ELSE 900,
    chance_of_playing_this_round |->
      IF v = "few" /\ p \in Doubtful THEN 75 ELSE IF Idx(p) % 2 = 0 THEN 100 ELSE NoChance ]

ScoreOf(v, cp, p) ==
  CASE v = "flat" -> 10
    [] v = "gkalt" /\ p \div 10 = GOALKEEPER -> At(<<10, 8, 12>>, Idx(p), 9)
    [] OTHER -> CostOf(cp, p)

----------------------------------------------------------------------------
(* Squad properties *)

value(S) == SumOver(S, [p \in S |-> player[p].now_cost])

\* Squad.remaining_budget, in tenths
remaining_budget(S, b) == b - value(S)

OfPosition(S, pos) == { p \in S : player[p].element_type = pos }
OfTeam(S, t) == { p \in S : player[p].team = t }

----------------------------------------------------------------------------
(* select_starting_eleven (SquadOptimizerWithHistory / PreseasonSquadOptimizer) *)

\* the sort key: scores[x.id].total_score if x.id in scores else <fallback>;
\* the fallback is x.total_points in the history optimizer, 0 in the pre-season one
SortKey(S, sc, variant) ==
  [ p \in S |-> IF p \in DOMAIN sc THEN sc[p]
                ELSE IF variant = "history" THEN player[p].total_points ELSE 0 ]

\* positions[pos] left in list order, without the sort
PositionListsUnsorted(list, key) ==
  [ pos \in Position |-> SelectSeq(list, LAMBDA p : player[p].element_type = pos) ]

\* positions[pos] after positions[pos].sort(key=..., reverse=True)
PositionLists(list, key) ==
  [ pos \in Position |->
      SortDesc(SelectSeq(list, LAMBDA p : player[p].element_type = pos), key) ]

\* one iteration of "for formation in FPLConstants.VALID_FORMATIONS"
FormationStep(best, f, positions, key) ==
  IF \/ Len(positions[DEFENDER]) < f[2]
     \/ Len(positions[MIDFIELDER]) < f[3]
     \/ Len(positions[FORWARD]) < f[4]
  THEN best
  ELSE LET temp_lineup == Take(positions[DEFENDER], f[2])
                          \o Take(positions[MIDFIELDER], f[3])
                          \o Take(positions[FORWARD], f[4])
           formation_score == SumSeq(temp_lineup, key)
       IN IF formation_score > best.best_score
          THEN [ best_score |-> formation_score, best_formation |-> f,
                 best_lineup |-> temp_lineup ]
          ELSE best

RECURSIVE FormationLoop(_, _, _, _)
FormationLoop(best, i, positions, key) ==
  IF i > Len(VALID_FORMATIONS) THEN best
  ELSE FormationLoop(FormationStep(best, VALID_FORMATIONS[i], positions, key),
                     i + 1, positions, key)

\* the goalkeepers put in starting_11 and on the bench before the formation search
GoalkeeperSplit(gks, variant) ==
  IF variant = "history"
  THEN IF Len(gks) >= 2 THEN [ start |-> <<gks[1]>>, bench |-> <<gks[2]>> ]
       ELSE [ start |-> <<>>, bench |-> <<>> ]
  ELSE IF Len(gks) >= 1
       THEN [ start |-> <<gks[1]>>,
              bench |-> IF Len(gks) > 1 THEN <<gks[2]>> ELSE <<>> ]
       ELSE [ start |-> <<>>, bench |-> <<>> ]

\* bench_ordered = outfield_bench[:3] + gk_bench
OrderBenchLineup(bench0, key) ==
  LET outfield_bench ==
        SortDesc(SelectSeq(bench0, LAMBDA p : player[p].element_type # GOALKEEPER), key)
      gk_bench == SelectSeq(bench0, LAMBDA p : player[p].element_type = GOALKEEPER)
  IN Take(outfield_bench, 3) \o gk_bench

select_starting_eleven(list, sc, variant) ==
  LET key == SortKey(Range(list), sc, variant)
      positions == PositionLists(list, key)
      gk == GoalkeeperSplit(positions[GOALKEEPER], variant)
      best == FormationLoop([ best_score |-> 0, best_formation |-> None,
                              best_lineup |-> <<>> ], 1, positions, key)
      f == best.best_formation
      rest == IF best.best_lineup # <<>>
              THEN Drop(positions[DEFENDER], f[2]) \o Drop(positions[MIDFIELDER], f[3])
                   \o Drop(positions[FORWARD], f[4])
              ELSE <<>>
  IN [ starting_11 |-> gk.start \o best.best_lineup,
       bench |-> OrderBenchLineup(gk.bench \o rest, key),
       formation |-> f ]

----------------------------------------------------------------------------
(* The 0/1 programs.  A solution assigns 0 or 1 to player_vars[p.id] for   *)
(* every p of the pool; it is written as the set S of the ids set to 1.     *)

\* prob += lpSum(player_vars) == 15
SquadSizeConstraint(S) == Cardinality(S) = SQUAD_SIZE

\* prob += lpSum(player_vars[p.id] * (p.now_cost / 10)) <= budget
BudgetConstraint(S, b) == value(S) <= b

\* for position in Position: prob += lpSum(position_players) == required
PositionConstraint(S) ==
  \A pos \in Position : Cardinality(OfPosition(S, pos)) = SQUAD_REQUIREMENTS[pos]

\* for team in teams: prob += lpSum(team_players) <= 3
TeamConstraint(pool, S) ==
  \A t \in { player[p].team : p \in pool } :
     Cardinality(OfTeam(S, t)) <= MAX_PLAYERS_PER_TEAM

\* constraint 5 of the history optimizer, added only if 11 such candidates exist
RegularStarterConstraint(pool, S) ==
  LET regular_starters ==
        { p \in pool : /\ player[p].minutes > 60
                       /\ player[p].chance_of_playing_this_round \in {NoChance, 100} }
  IN Cardinality(regular_starters) >= 11 => Cardinality(S \cap regular_starters) >= 11

\* "at least 2 premium players", added only if the pool has `needed` of them
\* (2 in the history optimizer, 3 in the pre-season optimizer)
PremiumConstraint(pool, S, needed) ==
  LET premiums == { p \in pool : player[p].now_cost >= 100 }
  IN Cardinality(premiums) >= needed => Cardinality(S \cap premiums) >= 2

\* pre-season optimizer: at least 1 elite premium if the pool has one
ElitePremiumConstraint(pool, S) ==
  LET elite_premiums == { p \in pool : player[p].now_cost >= 120 }
  IN Cardinality(elite_premiums) >= 1 => Cardinality(S \cap elite_premiums) >= 1

\* prob += lpSum(cheap_players) <= 4
CheapConstraint(pool, S) ==
  Cardinality({ p \in S : player[p].now_cost <= 45 }) <= 4

\* goalkeeper strategy, added only if the pool has a goalkeeper of each tier
GoalkeeperConstraint(pool, S) ==
  LET goalkeepers == OfPosition(pool, GOALKEEPER)
      premium_gks == { p \in goalkeepers : player[p].now_cost >= 45 }
      fodder_gks == { p \in goalkeepers : player[p].now_cost <= 40 }
  IN (premium_gks # {} /\ fodder_gks # {}) =>
       /\ Cardinality(S \cap premium_gks) >= 1
       /\ Cardinality(S \cap fodder_gks) >= 1

\* SquadOptimizer.optimize_initial_squad, constraint 5: two players at or above
\* the average price in each outfield position
avg_prices == (GOALKEEPER :> 50) @@ (DEFENDER :> 55) @@ (MIDFIELDER :> 75) @@ (FORWARD :> 75)

QualityConstraint(pool, S) ==
  \A pos \in {DEFENDER, MIDFIELDER, FORWARD} :
     Cardinality({ p \in S : /\ player[p].element_type = pos
                             /\ player[p].now_cost >= avg_prices[pos] }) >= 2

HistoryConstraints(pool, S, b) ==
  /\ SquadSizeConstraint(S)
  /\ BudgetConstraint(S, b)
  /\ PositionConstraint(S)
  /\ TeamConstraint(pool, S)
  /\ RegularStarterConstraint(pool, S)
  /\ PremiumConstraint(pool, S, 2)
  /\ CheapConstraint(pool, S)
  /\ GoalkeeperConstraint(pool, S)

PreseasonConstraints(pool, S, b) ==
  /\ SquadSizeConstraint(S)
  /\ BudgetConstraint(S, b)
  /\ PositionConstraint(S)
  /\ TeamConstraint(pool, S)
  /\ PremiumConstraint(pool, S, 3)
  /\ ElitePremiumConstraint(pool, S)
  /\ CheapConstraint(pool, S)
  /\ GoalkeeperConstraint(pool, S)

BasicConstraints(pool, S, b) ==
  /\ SquadSizeConstraint(S)
  /\ BudgetConstraint(S, b)
  /\ PositionConstraint(S)
  /\ TeamConstraint(pool, S)
  /\ QualityConstraint(pool, S)

Constraints(variant, pool, S, b) ==
  CASE variant = "history"   -> HistoryConstraints(pool, S, b)
    [] variant = "preseason" -> PreseasonConstraints(pool, S, b)
    [] OTHER                 -> BasicConstraints(pool, S, b)

\* objective of the history optimizer: total_score, plus 5 for a goalkeeper
\* that costs 4.0 or less
HistoryObjective(S, sc) ==
  SumOver(S, [ p \in S |->
    IF player[p].element_type = GOALKEEPER /\ player[p].now_cost <= 40
    THEN sc[p] + 5 ELSE sc[p] ])

\* objective of the pre-season and of the basic optimizer: the sum of the scores
PlainObjective(S, sc) == SumOver(S, [ p \in S |-> sc[p] ])

Objective(variant, S, sc) ==
  IF variant = "history" THEN HistoryObjective(S, sc) ELSE PlainObjective(S, sc)

\* the solutions of the program
FeasibleSet(variant, pool, b) ==
  { S \in KSubsets(pool, SQUAD_SIZE) : Constraints(variant, pool, S, b) }

\* a solver that stops at the first solution it finds, whatever its objective
OptimalSetAnyFeasible(variant, pool, b, sc) == FeasibleSet(variant, pool, b)

OptimalSet(variant, pool, b, sc) ==
  LET F == FeasibleSet(variant, pool, b)
      obj == [ S \in F |-> Objective(variant, S, sc) ]
  IN { S \in F : \A T \in F : obj[T] <= obj[S] }

\* The variable values left by a solve that ends without a solution (the
\* program infeasible, or the time limit hit before any solution): whatever
\* the solver wrote, read back by "varValue == 1".  Explored: the assignments
\* that set at most LeftoverBound variables, and the one that sets them all.
Leftovers(pool) ==
  UNION { KSubsets(pool, k) : k \in 0..Min(LeftoverBound, Cardinality(pool)) } \cup {pool}

\* prob.solve(PULP_CBC_CMD(timeLimit=...)) followed by the extraction of
\* selected_players: the possible (status, selected) pairs.  timeLimitHit
\* tells whether the solver stopped on config.optimization.time_limit.
Solve(variant, pool, b, sc, timeLimitHit) ==
  LET F == FeasibleSet(variant, pool, b)
  IN IF F = {}
     THEN { [ status |-> IF timeLimitHit THEN "Not Solved" ELSE "Infeasible", sel |-> L ] :
              L \in Leftovers(pool) \ F }
     ELSE IF ~timeLimitHit
     THEN { [ status |-> "Optimal", sel |-> S ] : S \in OptimalSet(variant, pool, b, sc) }
     ELSE { [ status |-> "Not Solved", sel |-> S ] : S \in F \cup Leftovers(pool) }

----------------------------------------------------------------------------
(* SquadOptimizer._suggest_formation *)

points(S) == [ p \in S |-> player[p].total_points ]

\* 60 * position_avg_points.get(pos, 0): the mean of the total_points of the
\* top players of the position (top 1 goalkeeper, 5 defenders, 5 midfielders,
\* 3 forwards); 60 is a multiple of every possible group size
AvgPoints60(S, pos) ==
  LET pos_players == SortDesc(ListOf(OfPosition(S, pos)), points(S))
      top == Take(pos_players,
                  CASE pos = GOALKEEPER -> 1 [] pos = FORWARD -> 3 [] OTHER -> 5)
  IN IF pos_players = <<>> THEN 0
     ELSE (60 * SumSeq(top, points(S))) \div Len(top)

SuggestStep(best, f, S) ==
  LET score == AvgPoints60(S, GOALKEEPER) * f[1] + AvgPoints60(S, DEFENDER) * f[2]
               + AvgPoints60(S, MIDFIELDER) * f[3] + AvgPoints60(S, FORWARD) * f[4]
  IN IF score > best.best_score
     THEN [ best_score |-> score, best_formation |-> f ]
     ELSE best

RECURSIVE SuggestLoop(_, _, _)
SuggestLoop(best, i, S) ==
  IF i > Len(VALID_FORMATIONS) THEN best
  ELSE SuggestLoop(SuggestStep(best, VALID_FORMATIONS[i], S), i + 1, S)

suggest_formation_basic(S) ==
  SuggestLoop([ best_score |-> 0, best_formation |-> <<1, 4, 4, 2>> ], 1, S).best_formation

----------------------------------------------------------------------------
(* The optimizer calls *)

\* SquadOptimizerWithHistory._optimize_with_scores and
\* PreseasonSquadOptimizer._optimize_with_scores: solve, build the Squad from
\* the variables equal to 1, select the starting eleven, return the Squad
OptimizeWithScores(variant) ==
  /\ pc = "optimize"
  /\ \E timeLimitHit \in BOOLEAN :
       \E out \in Solve(variant, players, budget, scores, timeLimitHit) :
          LET lu == select_starting_eleven(ListOf(out.sel), scores, variant)
          IN /\ status' = out.status
             /\ selected' = out.sel
             /\ starting_11' = lu.starting_11
             /\ bench' = lu.bench
             /\ formation' = lu.formation
  /\ returned' = "Squad"
  /\ call' = variant
  /\ pc' = "done"
  /\ UNCHANGED << players, player, scores, budget, formationIn >>
  /\ UNCHANGED scoreVars
  /\ UNCHANGED extVars

OptimizeWithScoresHistory == OptimizeWithScores("history")

OptimizeWithScoresPreseason == OptimizeWithScores("preseason")

\* SquadOptimizer.optimize_initial_squad: solve, log a warning when the status
\* is not optimal, build the Squad from the variables equal to 1
OptimizeInitialSquad ==
  /\ pc = "optimize"
  /\ \E timeLimitHit \in BOOLEAN :
       \E out \in Solve("basic", players, budget, scores, timeLimitHit) :
          /\ status' = out.status
          /\ selected' = out.sel
          /\ formation' = suggest_formation_basic(out.sel)
  /\ returned' = "Squad"
  /\ call' = "basic"
  /\ pc' = "done"
  /\ UNCHANGED << players, player, scores, budget, formationIn, starting_11, bench >>
  /\ UNCHANGED scoreVars
  /\ UNCHANGED extVars

InitOptimizer ==
  /\ \E cp \in CostProfiles, v \in Variations, extras \in SUBSET ExtraIds :
       /\ players = BaseIds \cup extras
       /\ player = [ p \in AllIds |-> MakePlayer(cp, v, p, ScoreOf(v, cp, p)) ]
       /\ scores = [ p \in BaseIds \cup extras |-> ScoreOf(v, cp, p) ]
  /\ budget \in Budgets
  /\ formationIn = None
  /\ status = "none"
  /\ returned = "none"
  /\ selected = {}
  /\ starting_11 = <<>>
  /\ bench = <<>>
  /\ formation = None
  /\ call = "none"
  /\ pc = "optimize"
  /\ cand = None /\ weights = None /\ ps = None
  /\ IdleExt

NextOptimizer ==
  \/ OptimizeWithScoresHistory
  \/ OptimizeWithScoresPreseason
  \/ OptimizeInitialSquad

SpecOptimizer == InitOptimizer /\ [][NextOptimizer]_vars

----------------------------------------------------------------------------
(* SquadOptimizer.optimize_starting_xi and _order_bench *)

\* gameweek_predictions, replaced by the total_points when empty or None
Predictions(S, sc) ==
  IF DOMAIN sc = {} THEN [ p \in S |-> player[p].total_points ] ELSE sc

\* gameweek_predictions.get(p.id, 0)
PredictionOf(pred, p) == IF p \in DOMAIN pred THEN pred[p] ELSE 0

\* the solutions of the starting XI program: exactly 11 players, and per
\* position the count of squad.formation
StartingXISets(S, f) ==
  { X \in { G \cup D \cup M \cup F :
              G \in KSubsets(OfPosition(S, GOALKEEPER), f[1]),
              D \in KSubsets(OfPosition(S, DEFENDER), f[2]),
              M \in KSubsets(OfPosition(S, MIDFIELDER), f[3]),
              F \in KSubsets(OfPosition(S, FORWARD), f[4]) } :
      Cardinality(X) = STARTING_XI_SIZE }

OptimalStartingXI(S, f, pred) ==
  LET F == StartingXISets(S, f)
      obj == [ X \in F |-> SumOver(X, [ p \in X |-> PredictionOf(pred, p) ]) ]
  IN { X \in F : \A Y \in F : obj[Y] <= obj[X] }

\* a bench order that returns others + gk
order_bench_gk_last(bench_players, pred) ==
  LET gk == SelectSeq(bench_players, LAMBDA p : player[p].element_type = GOALKEEPER)
      others == SelectSeq(bench_players, LAMBDA p : player[p].element_type # GOALKEEPER)
      key == [ p \in Range(bench_players) |-> PredictionOf(pred, p) ]
  IN SortDesc(others, key) \o gk

\* _order_bench: return gk + others, others sorted by predictions, descending
order_bench(bench_players, pred) ==
  LET gk == SelectSeq(bench_players, LAMBDA p : player[p].element_type = GOALKEEPER)
      others == SelectSeq(bench_players, LAMBDA p : player[p].element_type # GOALKEEPER)
      key == [ p \in Range(bench_players) |-> PredictionOf(pred, p) ]
  IN gk \o SortDesc(others, key)

----------------------------------------------------------------------------
(* Line-up calls on a squad that satisfies the squad invariant *)

GKShapes == { <<5, 3>>, <<3, 5>>, <<0, 0>> }
DEFShapes == { <<0, 0, 0, 0, 0>>, <<1, 2, 6, 4, 5>>, <<-1, -2, -1, -3, -2>> }
MIDShapes == { <<0, 0, 0, 0, 0>>, <<7, 6, 5, 4, 1>>, <<2, 9, 2, 9, 2>> }
FWDShapes == { <<0, 0, 0>>, <<8, 2, 1>>, <<4, 5, 6>> }
\* the ids absent from the scores dict
MissingSets == { {}, { PlayerId(DEFENDER, 1), PlayerId(MIDFIELDER, 2) }, BaseIds }

ShapeScore(g, d, m, f, p) ==
  CASE p \div 10 = GOALKEEPER -> g[Idx(p)]
    [] p \div 10 = DEFENDER   -> d[Idx(p)]
    [] p \div 10 = MIDFIELDER -> m[Idx(p)]
    [] OTHER                  -> f[Idx(p)]

SelectStartingEleven(variant) ==
  /\ pc = "lineup"
  /\ LET lu == select_starting_eleven(ListOf(players), scores, variant)
     IN /\ starting_11' = lu.starting_11
        /\ bench' = lu.bench
        /\ formation' = lu.formation
  /\ returned' = "Lineup"
  /\ call' = variant
  /\ pc' = "done"
  /\ UNCHANGED << players, player, scores, budget, formationIn, status, selected >>
  /\ UNCHANGED scoreVars
  /\ UNCHANGED extVars

SelectStartingElevenHistory == SelectStartingEleven("history")

SelectStartingElevenPreseason == SelectStartingEleven("preseason")

\* optimize_starting_xi, as TeamManager._optimize_lineup calls it: the
\* formation returned to the caller is the one counted on the starting XI
OptimizeStartingXI ==
  /\ pc = "lineup"
  /\ LET pred == Predictions(players, scores)
         list == ListOf(players)
     IN \E X \in OptimalStartingXI(players, formationIn, pred) :
          /\ starting_11' = SelectSeq(list, LAMBDA p : p \in X)
          /\ bench' = order_bench(SelectSeq(list, LAMBDA p : p \notin X), pred)
          /\ formation' = [ pos \in 1..4 |-> Cardinality(OfPosition(X, pos)) ]
  /\ status' = "Optimal"
  /\ returned' = "Lineup"
  /\ call' = "starting_xi"
  /\ pc' = "done"
  /\ UNCHANGED << players, player, scores, budget, formationIn, selected >>
  /\ UNCHANGED scoreVars
  /\ UNCHANGED extVars

InitLineup ==
  /\ players = BaseIds
  /\ \E g \in GKShapes, d \in DEFShapes, m \in MIDShapes, f \in FWDShapes,
        missing \in MissingSets :
       /\ player = [ p \in BaseIds |-> MakePlayer("tier1", "plain", p, 2 + (p % 3)) ]
       /\ scores = [ p \in BaseIds \ missing |-> ShapeScore(g, d, m, f, p) ]
  /\ budget = INITIAL_BUDGET
  /\ formationIn \in Range(VALID_FORMATIONS)
  /\ status = "none"
  /\ returned = "none"
  /\ selected = BaseIds
  /\ starting_11 = <<>>
  /\ bench = <<>>
  /\ formation = None
  /\ call = "none"
  /\ pc = "lineup"
  /\ cand = None /\ weights = None /\ ps = None
  /\ IdleExt

NextLineup ==
  \/ SelectStartingElevenHistory
  \/ SelectStartingElevenPreseason
  \/ OptimizeStartingXI

SpecLineup == InitLineup /\ [][NextLineup]_vars

----------------------------------------------------------------------------
(* Properties of the optimizer calls (SpecOptimizer) *)

\* the squad invariant: 15 players, {2, 5, 5, 3} by position, at most 3 of a
\* team, total price within the budget
ValidSquad(S, b) ==
  /\ Cardinality(S) = 15
  /\ Cardinality({ p \in S : player[p].element_type = GOALKEEPER }) = 2
  /\ Cardinality({ p \in S : player[p].element_type = DEFENDER }) = 5
  /\ Cardinality({ p \in S : player[p].element_type = MIDFIELDER }) = 5
  /\ Cardinality({ p \in S : player[p].element_type = FORWARD }) = 3
  /\ \A p \in S : Cardinality({ q \in S : player[q].team = player[p].team }) <= 3
  /\ SumOver(S, [ p \in S |-> player[p].now_cost ]) <= b

ValidSquadExists == \E S \in KSubsets(players, 15) : ValidSquad(S, budget)

\* C1: whenever the pool holds a valid squad for the budget, the squad
\* returned by _optimize_with_scores / optimize_initial_squad has 15 players,
\* 2-5-5-3 by position, at most 3 of a team and a price within the budget
\* (stated for the solves that the time limit did not cut).
C1_ValidSquadReturned ==
  (/\ returned = "Squad" /\ call \in {"history", "basic"}
   /\ status # "Not Solved" /\ ValidSquadExists)
    => ValidSquad(selected, budget)

\* C2: no optimizer returns a Squad that holds fewer than 15 players; a solve
\* without solution ends with an outcome that is not a Squad.
C2_NoPartialSquad ==
  returned = "Squad" => Cardinality(selected) >= 15

\* the scenario of the specification: budget 100.0 and exactly 15 candidates
\* that cost 7.0 each
Scenario7 ==
  /\ budget = 1000
  /\ Cardinality(players) = 15
  /\ \A p \in players : player[p].now_cost = 70

\* C3: no returned Squad has a negative remaining budget, and in the scenario
\* of 15 players at 7.0 with budget 100.0 the call does not return a Squad.
C3_BudgetIsHard ==
  (returned = "Squad" /\ call \in {"history", "basic"})
    => /\ remaining_budget(selected, budget) >= 0
       /\ ~Scenario7

\* the sum of the total_score of the players of S
TotalScoreSum(S) == SumOver(S, [ p \in S |-> scores[p] ])

\* C4 as stated: after an optimal solve, no selection that satisfies the
\* optimizer's constraints has a strictly larger sum of total_score than the
\* returned squad.
C4_MaximizesTotalScore ==
  (returned = "Squad" /\ status = "Optimal" /\ call \in {"history", "preseason"})
    => \A T \in FeasibleSet(call, players, budget) :
          TotalScoreSum(T) <= TotalScoreSum(selected)

\* what the history optimizer maximizes: total_score plus 5 for every selected
\* goalkeeper priced 4.0 or less; the pre-season optimizer maximizes the plain sum
FodderGoalkeepers(S) ==
  { p \in S : player[p].element_type = GOALKEEPER /\ player[p].now_cost <= 40 }

BonusScoreSum(S) ==
  TotalScoreSum(S) + (IF call = "history" THEN 5 * Cardinality(FodderGoalkeepers(S)) ELSE 0)

\* C4 amended: after an optimal solve, no selection that satisfies the
\* optimizer's constraints has a strictly larger objective value than the
\* returned squad, where the objective is the sum of total_score (pre-season)
\* and the sum of total_score plus 5 per goalkeeper of price <= 4.0 (history).
C4_MaximizesObjective ==
  (returned = "Squad" /\ status = "Optimal" /\ call \in {"history", "preseason"})
    => /\ Constraints(call, players, selected, budget)
       /\ \A T \in FeasibleSet(call, players, budget) :
             BonusScoreSum(T) <= BonusScoreSum(selected)

\* an optimal solve of the history optimizer whose squad beats another feasible
\* selection only through the goalkeeper bonus
C4_Witness ==
  /\ returned = "Squad" /\ status = "Optimal" /\ call = "history"
  /\ \E T \in FeasibleSet(call, players, budget) :
        /\ BonusScoreSum(T) < BonusScoreSum(selected)
        /\ TotalScoreSum(T) > TotalScoreSum(selected)

----------------------------------------------------------------------------
(* Properties of the line-up calls (SpecLineup) *)

CountOf(s, pos) == Cardinality({ i \in 1..Len(s) : player[s[i]].element_type = pos })

IsValidFormation(f) == \E i \in 1..Len(VALID_FORMATIONS) : VALID_FORMATIONS[i] = f

\* the score select_starting_eleven ranks a player by
RankScore(p) ==
  IF p \in DOMAIN scores THEN scores[p]
  ELSE IF call = "history" THEN player[p].total_points ELSE 0

\* the points optimize_starting_xi ranks a player by
RankPoints(p) ==
  IF DOMAIN scores = {} THEN player[p].total_points
  ELSE IF p \in DOMAIN scores THEN scores[p] ELSE 0

\* C5: on a valid squad select_starting_eleven returns 11 starters with
\* exactly 1 goalkeeper, outfield counts equal to a formation of
\* VALID_FORMATIONS (the one it returns), and a bench of the 4 other squad
\* players with the backup goalkeeper last.
C5_LineupShape ==
  (returned = "Lineup" /\ call \in {"history", "preseason"})
    => /\ Len(starting_11) = 11
       /\ CountOf(starting_11, GOALKEEPER) = 1
       /\ IsValidFormation(formation)
       /\ formation = [ pos \in 1..4 |-> CountOf(starting_11, pos) ]
       /\ Len(bench) = 4
       /\ Range(bench) = players \ Range(starting_11)
       /\ player[bench[Len(bench)]].element_type = GOALKEEPER

\* the largest sum of RankScore over the k-element subsets of S
MaxSum(S, k) ==
  LET sums == { SumOver(T, [ p \in T |-> RankScore(p) ]) : T \in KSubsets(S, k) }
  IN CHOOSE x \in sums : \A y \in sums : y <= x

\* C6: select_starting_eleven starts a goalkeeper of maximal score, and no
\* line-up of the squad that fits a valid formation (1 goalkeeper and the
\* formation's count of defenders, midfielders and forwards) scores strictly
\* more than the returned starters.
C6_LineupMaximal ==
  (returned = "Lineup" /\ call \in {"history", "preseason"})
    => /\ Len(starting_11) >= 1
       /\ player[starting_11[1]].element_type = GOALKEEPER
       /\ \A g \in players :
            player[g].element_type = GOALKEEPER => RankScore(g) <= RankScore(starting_11[1])
       /\ \A i \in 1..Len(VALID_FORMATIONS) :
            LET f == VALID_FORMATIONS[i]
            IN MaxSum({ p \in players : player[p].element_type = GOALKEEPER }, f[1])
               + MaxSum({ p \in players : player[p].element_type = DEFENDER }, f[2])
               + MaxSum({ p \in players : player[p].element_type = MIDFIELDER }, f[3])
               + MaxSum({ p \in players : player[p].element_type = FORWARD }, f[4])
               <= SumSeq(starting_11, [ p \in players |-> RankScore(p) ])

\* a returned line-up with a formation, goalkeepers of different scores and a
\* valid formation whose best line-up scores strictly less
C6_Witness ==
  /\ returned = "Lineup" /\ call \in {"history", "preseason"}
  /\ Len(starting_11) = 11
  /\ \E g \in players :
       player[g].element_type = GOALKEEPER /\ RankScore(g) < RankScore(starting_11[1])
  /\ \E i \in 1..Len(VALID_FORMATIONS) :
       LET f == VALID_FORMATIONS[i]
       IN MaxSum({ p \in players : player[p].element_type = GOALKEEPER }, f[1])
          + MaxSum({ p \in players : player[p].element_type = DEFENDER }, f[2])
          + MaxSum({ p \in players : player[p].element_type = MIDFIELDER }, f[3])
          + MaxSum({ p \in players : player[p].element_type = FORWARD }, f[4])
          < SumSeq(starting_11, [ p \in players |-> RankScore(p) ])

IsOutfield(p) == player[p].element_type # GOALKEEPER

\* the outfield players of the bench are in descending order of their points
OutfieldDescending(rank) ==
  \A i, j \in 1..Len(bench) :
     (i < j /\ IsOutfield(bench[i]) /\ IsOutfield(bench[j])) => rank[bench[i]] >= rank[bench[j]]

\* every goalkeeper of the bench comes after every outfield player of the bench
GoalkeeperLast ==
  \A i, j \in 1..Len(bench) : (~IsOutfield(bench[i]) /\ IsOutfield(bench[j])) => j < i

\* every goalkeeper of the bench comes before every outfield player of the bench
GoalkeeperFirst ==
  \A i, j \in 1..Len(bench) : (~IsOutfield(bench[i]) /\ IsOutfield(bench[j])) => i < j

\* C7 as stated: in every line-up, of select_starting_eleven and of
\* optimize_starting_xi, the outfield bench is in descending order of
\* predicted points and the benched goalkeeper is the last entry.
C7_BenchGoalkeeperLast ==
  returned = "Lineup"
    => /\ OutfieldDescending([ p \in players |->
             IF call = "starting_xi" THEN RankPoints(p) ELSE RankScore(p) ])
       /\ GoalkeeperLast

\* C7 amended: the outfield bench is in descending order of predicted points
\* in both; the benched goalkeeper is the last entry of the bench of
\* select_starting_eleven and the first entry of the bench of
\* optimize_starting_xi (_order_bench).
C7_BenchOrder ==
  returned = "Lineup"
    => IF call = "starting_xi"
       THEN /\ OutfieldDescending([ p \in players |-> RankPoints(p) ])
            /\ GoalkeeperFirst
            /\ Len(bench) = 4
       ELSE /\ OutfieldDescending([ p \in players |-> RankScore(p) ])
            /\ GoalkeeperLast

\* a bench of optimize_starting_xi that holds the goalkeeper and three
\* outfield players that do not all have the same points
C7_Witness ==
  /\ returned = "Lineup" /\ call = "starting_xi"
  /\ Len(bench) = 4
  /\ ~IsOutfield(bench[1])
  /\ RankPoints(bench[2]) > RankPoints(bench[4])

----------------------------------------------------------------------------
(* The scoring model.  Scores are integers in hundredths of a point (100.0 *)
(* is 10000); form, points_per_game and selected_by_percent are in tenths, *)
(* expected_* in hundredths; the intermediate values of the historical     *)
(* score are in thousandths.  Divisions round down to that unit.           *)

\* not history or 'history_past' not in history
NoHistory(h) == ~h.present \/ ~h.has_past

\* past_seasons[-3:]
LastThree(past) == IF Len(past) >= 3 THEN SubSeq(past, Len(past) - 2, Len(past)) ELSE past

\* recency_multiplier = 1.2 - (0.4 * i / max(num_seasons - 1, 1)), in thousandths;
\* i is the index in seasons_to_consider, which is in chronological order
RecencyMultiplier(i, num_seasons) == 1200 - (400 * i) \div Max(num_seasons - 1, 1)

\* one iteration of "for i, season in enumerate(seasons_to_consider)"
SeasonStep(acc, season, i, num_seasons) ==
  IF season.minutes < 180 THEN acc
  ELSE LET pts_per_90 == (season.total_points * 90 * 1000) \div season.minutes
           minutes_weight == Min((season.minutes * 1000) \div 3420, 1000)
           season_weight == (minutes_weight * RecencyMultiplier(i, num_seasons)) \div 1000
       IN [ weighted_pts_per_90 |-> acc.weighted_pts_per_90 + pts_per_90 * season_weight,
            total_weight |-> acc.total_weight + season_weight,
            total_minutes_analyzed |-> acc.total_minutes_analyzed + season.minutes,
            recent_injury_prone |-> acc.recent_injury_prone \/ (i = 0 /\ season.minutes < 2000) ]

RECURSIVE SeasonLoop(_, _, _)
SeasonLoop(acc, seasons, i) ==
  IF i >= Len(seasons) THEN acc
  ELSE SeasonLoop(SeasonStep(acc, seasons[i + 1], i, Len(seasons)), seasons, i + 1)

RECURSIVE BestSeasonTotal(_)
BestSeasonTotal(seasons) ==
  IF seasons = <<>> THEN 0
  ELSE IF Head(seasons).minutes > 1800
       THEN Max(BestSeasonTotal(Tail(seasons)), Head(seasons).total_points)
       ELSE BestSeasonTotal(Tail(seasons))

\* the step function from projected season points (thousandths) to base_score
BaseScore(projected) ==
  IF projected >= 250000 THEN 10000
  ELSE IF projected >= 200000 THEN 7500 + ((projected - 200000) * 3) \div 100
  ELSE IF projected >= 170000 THEN 6000 + (projected - 170000) \div 20
  ELSE IF projected >= 140000 THEN 4500 + (projected - 140000) \div 20
  ELSE IF projected >= 110000 THEN 3000 + (projected - 110000) \div 20
  ELSE IF projected >= 80000 THEN 1500 + (projected - 80000) \div 20
  ELSE (projected * 3) \div 160

\* an unknown player scored from the neutral 50 upwards
UnknownPlayerScoreNeutral(p) == Max(p.total_points * 50, 5000)

\* the value returned for a player without history: min(total_points * 0.5, 10)
UnknownPlayerScore(p) == Min(p.total_points * 50, 1000)

\* SquadOptimizerWithHistory._calculate_historical_score
calculate_historical_score(p, h) ==
  IF NoHistory(h) THEN UnknownPlayerScore(p)
  ELSE IF h.history_past = <<>> THEN UnknownPlayerScore(p)
  ELSE
    LET seasons_to_consider == LastThree(h.history_past)
        acc == SeasonLoop([ weighted_pts_per_90 |-> 0, total_weight |-> 0,
                            total_minutes_analyzed |-> 0, recent_injury_prone |-> FALSE ],
                          seasons_to_consider, 0)
    IN IF acc.total_weight <= 0 THEN p.total_points * 250
       ELSE
         LET final0 == acc.weighted_pts_per_90 \div acc.total_weight
             final_pts_per_90 ==
               IF acc.total_minutes_analyzed < 900
               THEN (final0 * acc.total_minutes_analyzed) \div 900 ELSE final0
             projected0 == final_pts_per_90 * 34
             projected1 == IF acc.recent_injury_prone THEN (projected0 * 9) \div 10 ELSE projected0
             best_season_total == BestSeasonTotal(seasons_to_consider)
             projected_season_points ==
               IF best_season_total > 0 /\ projected1 > best_season_total * 1200
               THEN best_season_total * 600 + (projected1 * 4) \div 10
               ELSE projected1
         IN Min(BaseScore(projected_season_points), 10000)

\* _calculate_form_score
calculate_form_score(p, data) ==
  LET form == p.form
      ppg == IF p.points_per_game > 0 THEN p.points_per_game ELSE form
      transfers_balance == data.transfers_in_event - data.transfers_out_event
      \* min(max(transfers_balance / 100000, -1), 1) * 10, in hundredths
      transfer_momentum == Min(Max(transfers_balance, -100000), 100000) \div 100
      form_score == form * 100 + ppg * 50 + transfer_momentum
  IN Min(form_score, 10000)

\* team_fixtures: the first 5 unfinished fixtures of the player's team
TeamFixtures(p, fixtures) ==
  Take(SelectSeq(fixtures, LAMBDA f : (f.team_h = p.team \/ f.team_a = p.team) /\ ~f.finished), 5)

\* total_difficulty, in tenths: (6 - d) * 1.1 at home, (6 - d) * 0.9 away
RECURSIVE TotalDifficulty(_, _)
TotalDifficulty(p, fx) ==
  IF fx = <<>> THEN 0
  ELSE (IF Head(fx).team_h = p.team
        THEN (6 - Head(fx).team_h_difficulty) * 11
        ELSE (6 - Head(fx).team_a_difficulty) * 9) + TotalDifficulty(p, Tail(fx))

\* a fixture score that is 0 for a team without fixtures
calculate_fixture_score_zero(p, fixtures) ==
  LET team_fixtures == TeamFixtures(p, fixtures)
  IN (TotalDifficulty(p, team_fixtures) * 200) \div Max(Len(team_fixtures), 1)

\* SquadOptimizerWithHistory._calculate_fixture_score: avg_ease * 20
calculate_fixture_score(p, fixtures) ==
  LET team_fixtures == TeamFixtures(p, fixtures)
  IN IF team_fixtures = <<>> THEN 5000
     ELSE (TotalDifficulty(p, team_fixtures) * 200) \div Len(team_fixtures)

\* PreseasonSquadOptimizer._calculate_fixture_score: min(avg_ease * 20, 100)
calculate_fixture_score_preseason(p, fixtures) ==
  LET team_fixtures == TeamFixtures(p, fixtures)
  IN IF team_fixtures = <<>> THEN 5000
     ELSE Min((TotalDifficulty(p, team_fixtures) * 200) \div Len(team_fixtures), 10000)

\* _calculate_value_score
calculate_value_score(p, h) ==
  LET last_season_points ==
        IF ~NoHistory(h) /\ h.history_past # <<>>
        THEN h.history_past[Len(h.history_past)].total_points ELSE 0
      \* expected_points, in tenths
      expected_points ==
        IF last_season_points > 0
        THEN last_season_points * 8 + p.total_points * 40
        ELSE p.total_points * 200
      \* ppm * 5, in hundredths; price = now_cost / 10
      ppm5 == IF p.now_cost > 0 THEN (expected_points * 500) \div p.now_cost ELSE 0
  IN Min(ppm5, 10000)

\* _calculate_ownership_score
calculate_ownership_score(p) ==
  LET ownership == p.selected_by_percent
  IN IF ownership < 50 /\ p.form > 50 THEN 6000
     ELSE IF ownership < 100 /\ p.form > 40 THEN 4000
     ELSE IF ownership < 200 THEN 3000
     ELSE IF ownership > 400 THEN 1000
     ELSE 2000

\* _calculate_expected_score
calculate_expected_score(p, data) ==
  LET minutes == Max(p.minutes, 1)
      xg == data.expected_goals
      xa == data.expected_assists
      xgc == data.expected_goals_conceded
      \* xg_90 * w + xa_90 * v, in hundredths: x_90 = x / minutes * 90
      mix(w, v) == (xg * 90 * w) \div minutes + (xa * 90 * v) \div minutes
      score ==
        CASE p.element_type = FORWARD    -> mix(100, 50)
          [] p.element_type = MIDFIELDER -> mix(80, 60)
          [] p.element_type = DEFENDER   -> mix(60, 40) + (Max(0, 10000 - xgc * 10) * 3) \div 10
          [] OTHER                       -> Max(0, 5000 - xgc * 10)
  IN Min(score, 10000)

\* SetPieceTakers.PENALTY_TAKERS, FREE_KICK_TAKERS, CORNER_SPECIALISTS
PENALTY_TAKERS_primary ==
  { "Haaland", "Palmer", "M.Salah", "Saka", "Bruno Fernandes", "Raul", "Wood",
    "Mateta", "Ndiaye", "Paqueta", "Wissa", "Watkins" }
PENALTY_TAKERS_secondary == {}
FREE_KICK_TAKERS_primary == { "Ward-Prowse", "Trippier", "Digne", "Bruno Fernandes", "Odegaard" }
FREE_KICK_TAKERS_secondary == { "Saka", "Palmer", "M.Salah", "Pereira" }
CORNER_SPECIALISTS == { "Trippier", "Saka", "Odegaard", "Palmer", "Ward-Prowse" }

\* SetPieceTakers.is_penalty_taker(player_name, primary_only=True)
is_penalty_taker(player_name) == player_name \in PENALTY_TAKERS_primary

\* SetPieceTakers.get_set_piece_score
get_set_piece_score(player_name) ==
    (IF player_name \in PENALTY_TAKERS_primary THEN 2000
     ELSE IF player_name \in PENALTY_TAKERS_secondary THEN 1000 ELSE 0)
  + (IF player_name \in FREE_KICK_TAKERS_primary THEN 1000
     ELSE IF player_name \in FREE_KICK_TAKERS_secondary THEN 500 ELSE 0)
  + (IF player_name \in CORNER_SPECIALISTS THEN 300 ELSE 0)

\* SetPieceTakers.analyze_historical_set_pieces: penalties scored + missed
\* in the last past season
penalties_taken(h) ==
  IF h.present /\ h.has_past /\ h.history_past # <<>>
  THEN LET last_season == h.history_past[Len(h.history_past)]
       IN last_season.penalties_scored + last_season.penalties_missed
  ELSE 0

\* _calculate_set_piece_score; confirmed / occasional are the floors a
\* history of penalties gives (20 / 10 with history, 25 / 15 pre-season)
set_piece_score(p, h, confirmed, occasional) ==
  LET known == get_set_piece_score(p.web_name)
      base_score ==
        IF ~h.present THEN known
        ELSE IF penalties_taken(h) >= 5 THEN Max(known, confirmed)
        ELSE IF penalties_taken(h) >= 2 THEN Max(known, occasional)
        ELSE known
      adjusted ==
        CASE p.element_type = GOALKEEPER -> 0
          [] p.element_type = DEFENDER   -> IF base_score > 0 THEN (base_score * 12) \div 10 ELSE base_score
          [] p.element_type = FORWARD    -> IF is_penalty_taker(p.web_name) THEN (base_score * 13) \div 10 ELSE base_score
          [] OTHER                       -> base_score
  IN Min(adjusted * 4, 10000)

calculate_set_piece_score(p, h) == set_piece_score(p, h, 2000, 1000)

calculate_set_piece_score_preseason(p, h) == set_piece_score(p, h, 2500, 1500)

\* a total that ignores self.weights and applies the default weights
TotalScoreDefaultWeights(w, sc) ==
    50 * sc.historical_score + 5 * sc.form_score + 15 * sc.fixture_score
  + 10 * sc.value_score + 10 * sc.expected_score + 10 * sc.set_piece_score

\* the weighted total of SquadOptimizerWithHistory._calculate_player_scores;
\* weights are in hundredths, so the total is in 1/10000
TotalScore(w, sc) ==
    w["historical"] * sc.historical_score
  + w["form"] * sc.form_score
  + w["fixtures"] * sc.fixture_score
  + w["value"] * sc.value_score
  + w["ownership"] * sc.ownership_score
  + w["expected"] * sc.expected_score
  + w["set_pieces"] * sc.set_piece_score

\* the PlayerScore of one player
PlayerScore(w, c) ==
  LET sc == [ historical_score |-> calculate_historical_score(c.player, c.history),
              form_score       |-> calculate_form_score(c.player, c.data),
              fixture_score    |-> calculate_fixture_score(c.player, c.fixtures),
              value_score      |-> calculate_value_score(c.player, c.history),
              ownership_score  |-> calculate_ownership_score(c.player),
              expected_score   |-> calculate_expected_score(c.player, c.data),
              set_piece_score  |-> calculate_set_piece_score(c.player, c.history) ]
  IN sc @@ [ total_score |-> TotalScore(w, sc) ]

----------------------------------------------------------------------------
(* Pre-season scoring (PreseasonSquadOptimizer) *)

\* gap_penalty, in thousandths
GapPenalty(past_seasons) ==
  LET recent_seasons == LastThree(past_seasons)
      n == Len(recent_seasons)
      season_names == { past_seasons[i].season_name : i \in 1..Len(past_seasons) }
      missed == IF "2024/25" \notin season_names /\ Len(past_seasons) > 0 THEN 500 ELSE 1000
      declining ==
        /\ n >= 2
        /\ recent_seasons[n - 1].minutes > 0
        /\ 2 * recent_seasons[n].minutes < recent_seasons[n - 1].minutes
        /\ recent_seasons[n].minutes < 1800
  IN IF declining THEN (missed * 7) \div 10 ELSE missed

\* [1.0, 0.5, 0.3][min(i, 2)]; i counts from the most recent season
RecencyWeight(i) == <<1000, 500, 300>>[Min(i, 2) + 1]

\* "for i, season in enumerate(reversed(recent_seasons))"
RECURSIVE PreseasonSeasonLoop(_, _, _)
PreseasonSeasonLoop(acc, seasons, i) ==
  IF i >= Len(seasons) THEN acc
  ELSE LET season == seasons[Len(seasons) - i]
           weight == (RecencyWeight(i) * Min((season.minutes * 1000) \div 3000, 1000)) \div 1000
       IN PreseasonSeasonLoop(
            IF season.minutes < 900 THEN acc
            ELSE [ total_weighted_points |-> acc.total_weighted_points + season.total_points * weight,
                   total_weight |-> acc.total_weight + weight ],
            seasons, i + 1)

\* the step function from avg_points (thousandths) to the score
PreseasonStep(avg_points) ==
  IF avg_points >= 250000 THEN 10000
  ELSE IF avg_points >= 225000 THEN 9500
  ELSE IF avg_points >= 200000 THEN 9000
  ELSE IF avg_points >= 180000 THEN 8000
  ELSE IF avg_points >= 160000 THEN 7000
  ELSE IF avg_points >= 140000 THEN 6000
  ELSE IF avg_points >= 120000 THEN 5000
  ELSE IF avg_points >= 100000 THEN 4000
  ELSE IF avg_points >= 80000 THEN 3000
  ELSE Max(500, (avg_points * 3) \div 100)

\* the value returned for unknowns: 5
UnknownPreseasonScore == 500

\* PreseasonSquadOptimizer._calculate_historical_score
calculate_historical_score_preseason(p, h) ==
  IF NoHistory(h) THEN UnknownPreseasonScore
  ELSE IF h.history_past = <<>> THEN UnknownPreseasonScore
  ELSE
    LET acc == PreseasonSeasonLoop([ total_weighted_points |-> 0, total_weight |-> 0 ],
                                   LastThree(h.history_past), 0)
    IN IF acc.total_weight = 0 THEN UnknownPreseasonScore
       ELSE PreseasonStep((((acc.total_weighted_points * 1000) \div acc.total_weight)
                             * GapPenalty(h.history_past)) \div 1000)

\* _apply_ownership_reality_check
apply_ownership_reality_check(score, p) ==
  LET ownership == p.selected_by_percent
  IN IF score > 6000 /\ ownership < 10 THEN (score * 4) \div 10
     ELSE IF score > 5000 /\ ownership < 20 THEN (score * 6) \div 10
     ELSE IF score > 4000 /\ ownership < 30 THEN (score * 8) \div 10
     ELSE score

\* the integer square root
RECURSIVE ISqrtBetween(_, _, _)
ISqrtBetween(x, lo, hi) ==
  IF lo >= hi THEN lo
  ELSE LET mid == (lo + hi + 1) \div 2
       IN IF mid * mid <= x THEN ISqrtBetween(x, mid, hi) ELSE ISqrtBetween(x, lo, mid - 1)

ISqrt(x) == ISqrtBetween(x, 0, 40000)

\* _calculate_consistency_score
calculate_consistency_score(p, h) ==
  IF NoHistory(h) THEN 0
  ELSE IF h.history_past = <<>> THEN 0
  ELSE
    LET past_seasons == LastThree(h.history_past)
        n == Len(past_seasons)
        total_minutes == SumSeq(past_seasons, [ s \in Range(past_seasons) |-> s.minutes ])
        \* min(avg_minutes / 3000, 1.0) * 50
        minutes_score == Min((total_minutes * 5) \div (3 * n), 5000)
        points_list == SelectSeq(past_seasons, LAMBDA s : s.minutes > 900)
        m == Len(points_list)
        sum == SumSeq(points_list, [ s \in Range(points_list) |-> s.total_points ])
        sumsq == SumSeq(points_list, [ s \in Range(points_list) |-> s.total_points * s.total_points ])
        \* std_dev / avg_points = sqrt(m * sumsq - sum^2) / sum
        consistency_bonus ==
          IF n >= 2 /\ m >= 2
          THEN IF sum > 0
               THEN 5000 - Min((ISqrt((m * sumsq - sum * sum) * 10000) * 50) \div sum, 5000)
               ELSE 0
          ELSE 2500
    IN minutes_score + consistency_bonus

\* _calculate_elite_score
calculate_elite_score(p, h) ==
  IF NoHistory(h) THEN 0
  ELSE
    LET past == h.history_past
        elite_seasons == Cardinality({ i \in 1..Len(past) : past[i].total_points >= 200 })
        very_good_seasons == Cardinality({ i \in 1..Len(past) : past[i].total_points >= 180 })
    IN IF elite_seasons >= 3 THEN 10000
       ELSE IF elite_seasons >= 2 THEN 8000
       ELSE IF elite_seasons >= 1 THEN 6000
       ELSE IF very_good_seasons >= 2 THEN 4000
       ELSE IF very_good_seasons >= 1 THEN 2000
       ELSE 0

\* _identify_top_teams: the team ids by (home + away) / 2, strongest first
identify_top_teams(teams) ==
  LET ids == [ i \in 1..Len(teams) |-> teams[i].id ]
      key == [ t \in Range(ids) |->
                 LET i == CHOOSE j \in 1..Len(teams) : teams[j].id = t
                 IN teams[i].strength_overall_home + teams[i].strength_overall_away ]
  IN SortDesc(ids, key)

\* _calculate_team_quality_score
calculate_team_quality_score(p, top_teams) ==
  IF p.team \in Range(Take(top_teams, 3)) THEN 10000
  ELSE IF p.team \in Range(Take(top_teams, 6)) THEN 6000
  ELSE IF p.team \in Range(Take(top_teams, 10)) THEN 3000
  ELSE 0

\* the weighted total of _calculate_preseason_scores
PreseasonTotalScore(w, sc) ==
    w["historical"] * sc.historical_score
  + w["consistency"] * sc.consistency_score
  + w["elite"] * sc.elite_score
  + w["fixtures"] * sc.fixture_score
  + w["set_pieces"] * sc.set_piece_score
  + w["team_quality"] * sc.team_quality_score

\* the PreseasonPlayerScore of one player
PreseasonPlayerScore(w, c) ==
  LET top_teams == identify_top_teams(c.teams)
      sc == [ historical_score |->
                apply_ownership_reality_check(
                  calculate_historical_score_preseason(c.player, c.history), c.player),
              consistency_score |->
                apply_ownership_reality_check(
                  calculate_consistency_score(c.player, c.history), c.player),
              elite_score        |-> calculate_elite_score(c.player, c.history),
              fixture_score      |-> calculate_fixture_score_preseason(c.player, c.fixtures),
              set_piece_score    |-> calculate_set_piece_score_preseason(c.player, c.history),
              team_quality_score |-> calculate_team_quality_score(c.player, top_teams) ]
  IN sc @@ [ total_score |-> PreseasonTotalScore(w, sc) ]

----------------------------------------------------------------------------
(* The inputs of the scoring calls *)

Season(name, pts, mins, pen_scored, pen_missed) ==
  [ season_name |-> name, total_points |-> pts, minutes |-> mins,
    penalties_scored |-> pen_scored, penalties_missed |-> pen_missed ]

History(past) == [ present |-> TRUE, has_past |-> TRUE, history_past |-> past ]

\* self.player_histories.get(player.id, {}) for a player whose fetch failed
AbsentHistory == [ present |-> FALSE, has_past |-> FALSE, history_past |-> <<>> ]

\* a summary that carries no 'history_past' key
SummaryWithoutPast == [ present |-> TRUE, has_past |-> FALSE, history_past |-> <<>> ]

\* one past season of a single substitute appearance
ShortHistory == History(<< Season("2024/25", 12, 90, 0, 0) >>)

EliteHistory ==
  History(<< Season("2022/23", 240, 3100, 3, 0), Season("2023/24", 210, 2900, 4, 1),
             Season("2024/25", 220, 3200, 5, 1) >>)

\* four seasons, none of them 2024/25, with the minutes falling away
GapHistory ==
  History(<< Season("2019/20", 150, 2800, 0, 0), Season("2020/21", 120, 2500, 0, 0),
             Season("2021/22", 100, 2400, 1, 0), Season("2022/23", 40, 1000, 1, 1) >>)

Histories ==
  { AbsentHistory, SummaryWithoutPast, History(<<>>), ShortHistory, EliteHistory, GapHistory }

Fixture(h, a, dh, da, fin) ==
  [ team_h |-> h, team_a |-> a, team_h_difficulty |-> dh, team_a_difficulty |-> da,
    finished |-> fin ]

Opponent(t) == (t % 12) + 1

FixtureLists(t) ==
  { \* no fixture at all
    << >>,
    \* nothing left to play for the team
    << Fixture(t, Opponent(t), 2, 4, TRUE), Fixture(Opponent(t), t, 3, 3, TRUE),
       Fixture(Opponent(t), Opponent(Opponent(t)), 2, 2, FALSE) >>,
    \* five home fixtures of difficulty 1
    [ i \in 1..5 |-> Fixture(t, Opponent(t), 1, 5, FALSE) ],
    \* a mixed run of seven, one finished, one of other teams
    << Fixture(t, Opponent(t), 1, 5, TRUE), Fixture(Opponent(t), t, 2, 4, FALSE),
       Fixture(t, Opponent(t), 2, 4, FALSE),
       Fixture(Opponent(t), Opponent(Opponent(t)), 1, 1, FALSE),
       Fixture(Opponent(t), t, 1, 5, FALSE), Fixture(t, Opponent(t), 3, 3, FALSE),
       Fixture(Opponent(t), t, 4, 2, FALSE), Fixture(t, Opponent(t), 1, 5, FALSE) >> }

TeamStrengthHome == << 1375, 1325, 1350, 1275, 1300, 1250, 1200, 1175, 1225, 1150, 1125, 1075 >>

Teams ==
  [ i \in 1..Len(TeamStrengthHome) |->
      [ id |-> i, strength_overall_home |-> TeamStrengthHome[i],
        strength_overall_away |-> TeamStrengthHome[i] - 50 ] ]

\* name, team, price, ownership, minutes and expected stats of a candidate
Profiles ==
  { [ web_name |-> "Unknown", team |-> 12, now_cost |-> 45, selected_by_percent |-> 5,
      minutes |-> 0, expected_goals |-> 0, expected_assists |-> 0,
      expected_goals_conceded |-> 0 ],
    [ web_name |-> "Haaland", team |-> 1, now_cost |-> 140, selected_by_percent |-> 450,
      minutes |-> 2700, expected_goals |-> 2200, expected_assists |-> 300,
      expected_goals_conceded |-> 3000 ],
    [ web_name |-> "Trippier", team |-> 5, now_cost |-> 60, selected_by_percent |-> 150,
      minutes |-> 1800, expected_goals |-> 100, expected_assists |-> 600,
      expected_goals_conceded |-> 2500 ],
    [ web_name |-> "Wood", team |-> 9, now_cost |-> 75, selected_by_percent |-> 25,
      minutes |-> 2500, expected_goals |-> 1500, expected_assists |-> 200,
      expected_goals_conceded |-> 4000 ] }

\* form and points_per_game
Forms == { <<0, 0>>, <<55, 42>> }

\* transfers_in_event and transfers_out_event
TransferEvents == { <<0, 150000>>, <<80000, 30000>> }

TotalPoints == { 0, 60 }

Candidate(pr, pos, pts, fm, tr, h, fx) ==
  [ player |-> [ web_name |-> pr.web_name, team |-> pr.team, element_type |-> pos,
                 now_cost |-> pr.now_cost, total_points |-> pts, form |-> fm[1],
                 points_per_game |-> fm[2], selected_by_percent |-> pr.selected_by_percent,
                 minutes |-> pr.minutes ],
    data |-> [ transfers_in_event |-> tr[1], transfers_out_event |-> tr[2],
               expected_goals |-> pr.expected_goals, expected_assists |-> pr.expected_assists,
               expected_goals_conceded |-> pr.expected_goals_conceded ],
    history |-> h,
    fixtures |-> fx,
    teams |-> Teams ]

HistoryKeys ==
  { "historical", "form", "fixtures", "value", "ownership", "expected", "set_pieces" }

PreseasonKeys ==
  { "historical", "consistency", "elite", "fixtures", "set_pieces", "team_quality" }

\* self.weights of SquadOptimizerWithHistory.__init__, in hundredths
HistoryWeights ==
  [ historical |-> 50, form |-> 5, fixtures |-> 15, value |-> 10, ownership |-> 0,
    expected |-> 10, set_pieces |-> 10 ]

\* self.weights of PreseasonSquadOptimizer.__init__, in hundredths
PreseasonWeights ==
  [ historical |-> 50, consistency |-> 15, elite |-> 10, fixtures |-> 10,
    set_pieces |-> 10, team_quality |-> 5 ]

\* a weight vector that is zero on every key except k
OneHot(keys, k, w) == [ j \in keys |-> IF j = k THEN w ELSE 0 ]

WeightVectors ==
  { HistoryWeights, PreseasonWeights }
    \cup { OneHot(HistoryKeys, k, w) : k \in HistoryKeys, w \in {50, 100} }
    \cup { OneHot(PreseasonKeys, k, w) : k \in PreseasonKeys, w \in {50, 100} }

----------------------------------------------------------------------------
(* The scoring calls *)

\* SquadOptimizerWithHistory._calculate_player_scores, for one candidate
CalculatePlayerScores ==
  /\ pc = "score"
  /\ DOMAIN weights = HistoryKeys
  /\ ps' = PlayerScore(weights, cand)
  /\ call' = "history"
  /\ returned' = "Scores"
  /\ pc' = "scored"
  /\ UNCHANGED << players, player, scores, budget, formationIn, status, selected,
                  starting_11, bench, formation, cand, weights >>
  /\ UNCHANGED extVars

\* PreseasonSquadOptimizer._calculate_preseason_scores, for one candidate
CalculatePreseasonScores ==
  /\ pc = "score"
  /\ DOMAIN weights = PreseasonKeys
  /\ ps' = PreseasonPlayerScore(weights, cand)
  /\ call' = "preseason"
  /\ returned' = "Scores"
  /\ pc' = "scored"
  /\ UNCHANGED << players, player, scores, budget, formationIn, status, selected,
                  starting_11, bench, formation, cand, weights >>
  /\ UNCHANGED extVars

InitScore ==
  /\ \E pr \in Profiles, pos \in Position, pts \in TotalPoints, fm \in Forms,
        tr \in TransferEvents, h \in Histories :
       \E fx \in FixtureLists(pr.team) :
          cand = Candidate(pr, pos, pts, fm, tr, h, fx)
  /\ weights \in WeightVectors
  /\ ps = None
  /\ players = {}
  /\ player = <<>>
  /\ scores = <<>>
  /\ budget = INITIAL_BUDGET
  /\ formationIn = None
  /\ status = "none"
  /\ returned = "none"
  /\ selected = {}
  /\ starting_11 = <<>>
  /\ bench = <<>>
  /\ formation = None
  /\ call = "none"
  /\ pc = "score"
  /\ IdleExt

NextScore ==
  \/ CalculatePlayerScores
  \/ CalculatePreseasonScores

SpecScore == InitScore /\ [][NextScore]_vars

----------------------------------------------------------------------------
(* Properties of the scoring calls (SpecScore) *)

\* the sub-score a weight key multiplies
SubScore(sc, k) ==
  CASE k = "historical"   -> sc.historical_score
    [] k = "form"         -> sc.form_score
    [] k = "fixtures"     -> sc.fixture_score
    [] k = "value"        -> sc.value_score
    [] k = "ownership"    -> sc.ownership_score
    [] k = "expected"     -> sc.expected_score
    [] k = "set_pieces"   -> sc.set_piece_score
    [] k = "consistency"  -> sc.consistency_score
    [] k = "elite"        -> sc.elite_score
    [] k = "team_quality" -> sc.team_quality_score

\* C8: every sub-score of a PlayerScore of the history optimizer (historical,
\* form, fixture, value, ownership, expected, set-piece) lies in [0, 100].
C8_SubScoresInRange ==
  (pc = "scored" /\ call = "history")
    => \A k \in HistoryKeys : SubScore(ps, k) >= 0 /\ SubScore(ps, k) <= 10000

\* C9: total_score is the sum over the keys of weight[k] * subscore[k]: keys
\* of weight 0 contribute nothing, and under a weight vector that is zero
\* except on one key k the total is weight[k] * subscore[k], which is that
\* sub-score itself when the weight is 1.
C9_TotalIsLinear ==
  pc = "scored" =>
    /\ ps.total_score =
         SumOver({ k \in DOMAIN weights : weights[k] # 0 },
                 [ k \in DOMAIN weights |-> weights[k] * SubScore(ps, k) ])
    /\ \A k \in DOMAIN weights :
         (\A j \in DOMAIN weights \ {k} : weights[j] = 0)
           => /\ ps.total_score = weights[k] * SubScore(ps, k)
              /\ weights[k] = 100 => ps.total_score = 100 * SubScore(ps, k)

\* a one-hot weight vector of weight 1 met a candidate that has another,
\* zero-weighted, sub-score above 0
C9_Witness ==
  /\ pc = "scored"
  /\ \E k \in DOMAIN weights :
       /\ weights[k] = 100
       /\ SubScore(ps, k) > 0
       /\ \A j \in DOMAIN weights \ {k} : weights[j] = 0
       /\ \E j \in DOMAIN weights \ {k} : SubScore(ps, j) > 0
       /\ ps.total_score = 100 * SubScore(ps, k)

\* no history record, no 'history_past' in it, or an empty list of seasons
NoRecordedHistory(h) == NoHistory(h) \/ h.history_past = <<>>

\* the fixed ceiling of the historical sub-score of an unknown player
UnknownCeiling == IF call = "history" THEN 1000 ELSE 500

\* C10: a player with no recorded history and zero current-season points
\* never has a historical sub-score above the unknown-player ceiling (10 in
\* the history optimizer, 5 in the pre-season optimizer).
C10_UnknownCeiling ==
  (pc = "scored" /\ NoRecordedHistory(cand.history) /\ cand.player.total_points = 0)
    => ps.historical_score <= UnknownCeiling

C10_Witness ==
  /\ pc = "scored"
  /\ NoRecordedHistory(cand.history)
  /\ cand.player.total_points = 0
  /\ call = "preseason"
  /\ ps.historical_score = 500

\* the team of the candidate has no unfinished fixture in the fixture list
NoUpcomingFixture == TeamFixtures(cand.player, cand.fixtures) = <<>>

\* C11: for a player whose team has no unfinished fixture the fixture score
\* of both optimizers is the neutral 50 (not 0, and a defined value).
C11_NeutralFixtureScore ==
  (pc = "scored" /\ NoUpcomingFixture) => ps.fixture_score = 5000

\* the fixture list holds fixtures, all those of the team are finished, and
\* the fixture score is 50
C11_Witness ==
  /\ pc = "scored"
  /\ NoUpcomingFixture
  /\ cand.fixtures # <<>>
  /\ \E i \in 1..Len(cand.fixtures) : cand.fixtures[i].team_h = cand.player.team
  /\ ps.fixture_score = 5000

\* the recency weight that the optimizer called gives the k-th of the n
\* seasons considered; history_past is in chronological order, oldest first
RecencyOf(k, n) ==
  IF call = "history" THEN RecencyMultiplier(k - 1, n) ELSE RecencyWeight(n - k)

\* C22: among the seasons considered (the last three of history_past), a
\* season never has a lower recency weight than an older season
C22_RecentSeasonsWeighMore ==
  pc = "scored" =>
    LET n == Len(LastThree(cand.history.history_past))
    IN  \A i, j \in 1..n : i < j => RecencyOf(j, n) >= RecencyOf(i, n)

\* the minutes below which a season is left out of the historical score
MinimumMinutes == IF call = "history" THEN 180 ELSE 900

\* no history record, no past season, or only seasons below the minimum minutes
NoUsableHistory(h) ==
  \/ NoRecordedHistory(h)
  \/ \A s \in Range(LastThree(h.history_past)) : s.minutes < MinimumMinutes

\* C23: a player without usable history never has a historical sub-score
\* above the unknown-player ceiling, whatever the current-season points
C23_NoUsableHistoryCeiling ==
  (pc = "scored" /\ NoUsableHistory(cand.history)) => ps.historical_score <= UnknownCeiling

\* the sum of the total_points of the top players of S that formation f
\* fields: the best f[pos] players of each position
TopSum(S, f) ==
  SumOver(Position,
          [ pos \in Position |->
              SumSeq(Take(SortDesc(ListOf(OfPosition(S, pos)), points(S)), f[pos]),
                     points(S)) ])

\* C24: the formation suggested for the selected squad is a valid formation,
\* and no valid formation has a larger sum of the points of its top players
C24_SuggestedFormationIsBest ==
  (pc = "done" /\ call = "basic") =>
    /\ formation \in Range(VALID_FORMATIONS)
    /\ \A k \in 1..Len(VALID_FORMATIONS) :
         TopSum(selected, VALID_FORMATIONS[k]) <= TopSum(selected, formation)

\* the players of S that cost 10.0 or more
PremiumsOf(S) == { p \in S : player[p].now_cost >= 100 }

\* C25: every squad returned by the history optimizer or the pre-season
\* optimizer holds at least 2 premium players
C25_TwoPremiumPlayers ==
  (pc = "done" /\ call \in {"history", "preseason"}) =>
    Cardinality(PremiumsOf(selected)) >= 2

----------------------------------------------------------------------------
(* Goalkeeper price tiers of the returned squad *)

UpperTierGoalkeepers(S) == { p \in OfPosition(S, GOALKEEPER) : player[p].now_cost >= 45 }

BothTiersInPool ==
  /\ UpperTierGoalkeepers(players) # {}
  /\ FodderGoalkeepers(players) # {}

\* C13: when the pool holds a goalkeeper of the upper tier (now_cost >= 45)
\* and one of the fodder tier (now_cost <= 40), the two goalkeepers of the
\* squad returned by the history and the pre-season optimizer are one of each tier
C13_OneGoalkeeperOfEachTier ==
  (pc = "done" /\ call \in {"history", "preseason"} /\ BothTiersInPool) =>
    /\ Cardinality(OfPosition(selected, GOALKEEPER)) = 2
    /\ Cardinality(UpperTierGoalkeepers(selected)) = 1
    /\ Cardinality(FodderGoalkeepers(selected)) = 1

----------------------------------------------------------------------------
(* SquadOptimizerWithHistory.optimize_initial_squad: the requests to the     *)
(* stats provider, the history cache of the optimizer instance, the scores  *)
(* and the solve.  The scores dict handed to the solve is kept in whole     *)
(* points (total_score rounded down), the unit of the goalkeeper bonus.     *)

\* calls explored on one optimizer instance
MaxCalls == 2

\* FPLClient._get_cache_key of an endpoint: its name and, for the element
\* summary, the player id (0 when the endpoint has no parameter)
CacheKey(name, id) == << name, id >>

\* a client that stores whatever came back, the failed response included
make_request_caching_failures(cache, reqs, endpoint, ok) ==
  IF endpoint \in cache
  THEN [ cache |-> cache, requests |-> reqs, raised |-> FALSE ]
  ELSE [ cache |-> cache \cup {endpoint}, requests |-> Append(reqs, endpoint),
         raised |-> ~ok ]

\* FPLClient._make_request: a valid cache entry is returned without a request;
\* otherwise one GET is sent, the response is cached once raise_for_status()
\* and json() went through, and an aiohttp.ClientError is logged and raised again
make_request(cache, reqs, endpoint, ok) ==
  IF endpoint \in cache
  THEN [ cache |-> cache, requests |-> reqs, raised |-> FALSE ]
  ELSE [ cache |-> IF ok THEN cache \cup {endpoint} ELSE cache,
         requests |-> Append(reqs, endpoint),
         raised |-> ~ok ]

\* elements of the bootstrap data that are not available (status 'i')
Injured == { PlayerId(GOALKEEPER, 3) }

\* players whose element-summary request may fail
Flaky == { PlayerId(DEFENDER, 1), PlayerId(DEFENDER, 6), PlayerId(MIDFIELDER, 5) }

\* what /element-summary/{player_id}/ holds for a player
UpstreamHistory(p) ==
  IF p \in Flaky THEN EliteHistory
  ELSE IF Idx(p) % 2 = 0 THEN GapHistory ELSE ShortHistory

\* the team of an element of the bootstrap data
ElementTeam(p) == ((Idx(p) + 3 * (p \div 10)) % 9) + 1

\* the raw element of the bootstrap data, the same for every player but for
\* its position, team and price
ElementOf(cp, p) ==
  Candidate([ web_name |-> "Unknown", team |-> ElementTeam(p), now_cost |-> CostOf(cp, p),
              selected_by_percent |-> 50, minutes |-> 900, expected_goals |-> 100,
              expected_assists |-> 100, expected_goals_conceded |-> 2000 ],
            p \div 10, 60, <<55, 42>>, <<0, 150000>>, AbsentHistory, << >>)

ElementPlayer(cp, p) ==
  ElementOf(cp, p).player @@
  [ chance_of_playing_this_round |-> IF Idx(p) % 2 = 0 THEN 100 ELSE NoChance,
    status |-> IF p \in Injured THEN "i" ELSE "a" ]

\* the fixtures response
FixturesData == [ i \in 1..5 |-> Fixture(1, 2, 1, 5, FALSE) ]

\* candidates of optimize_initial_squad: played or owned, available, and the
\* price test "p.price <= 15.0 or p.price >= 10.0"
CandidatesOf(pool) ==
  { p \in pool : /\ (player[p].minutes > 0 \/ player[p].selected_by_percent > 10)
                 /\ player[p].status = "a"
                 /\ (player[p].now_cost <= 150 \/ player[p].now_cost >= 100) }

\* one iteration of the fetch loop: _fetch_player_history returns the summary,
\* or None when the request raised; "if history:" stores the summary in
\* self.player_histories
FetchStep(acc, p, ok) ==
  LET r == make_request(acc.cache, acc.requests, CacheKey("player", p), ok)
  IN [ cache |-> r.cache,
       requests |-> r.requests,
       fetched |-> IF r.raised THEN acc.fetched ELSE acc.fetched \cup {p},
       histories |->
         IF r.raised THEN acc.histories
         ELSE [ q \in DOMAIN acc.histories \cup {p} |->
                  IF q = p THEN UpstreamHistory(p) ELSE acc.histories[q] ] ]

RECURSIVE FetchLoop(_, _, _, _)
FetchLoop(acc, list, i, failing) ==
  IF i > Len(list) THEN acc
  ELSE FetchLoop(FetchStep(acc, list[i], list[i] \notin failing), list, i + 1, failing)

\* _calculate_player_scores over the candidates, with
\* history = self.player_histories.get(player.id, {})
ScoresFrom(cands, histories) ==
  [ p \in cands |->
      PlayerScore(weights,
                  [ player |-> player[p],
                    data |-> ElementOf("flat70", p).data,
                    history |-> IF p \in DOMAIN histories THEN histories[p]
                                ELSE AbsentHistory,
                    fixtures |-> FixturesData,
                    teams |-> Teams ]).total_score \div 10000 ]

\* "async with FPLClient() as client: bootstrap = await client.get_bootstrap_data()"
GetBootstrapData ==
  /\ pc \in {"call", "returned", "raised"}
  /\ calls < MaxCalls
  /\ calls' = calls + 1
  /\ \E ok \in BOOLEAN :
       LET r == make_request({}, << >>, CacheKey("bootstrap", 0), ok)
       IN /\ client_cache' = r.cache
          /\ requests' = r.requests
          /\ pc' = IF r.raised THEN "raised" ELSE "get_fixtures"
          /\ returned' = IF r.raised THEN "ClientError" ELSE "none"
  /\ fetched' = {}
  /\ status' = "none"
  /\ selected' = {}
  /\ starting_11' = << >>
  /\ bench' = << >>
  /\ formation' = None
  /\ scores' = << >>
  /\ call' = "history"
  /\ UNCHANGED << players, player, budget, formationIn, player_histories >>
  /\ UNCHANGED scoreVars
  /\ UNCHANGED notCallVars

\* "fixtures_data = await client.get_fixtures()"
GetFixtures ==
  /\ pc = "get_fixtures"
  /\ \E ok \in BOOLEAN :
       LET r == make_request(client_cache, requests, CacheKey("fixtures", 0), ok)
       IN /\ client_cache' = r.cache
          /\ requests' = r.requests
          /\ pc' = IF r.raised THEN "raised" ELSE "fetch_histories"
          /\ returned' = IF r.raised THEN "ClientError" ELSE "none"
  /\ UNCHANGED << players, player, scores, budget, formationIn, status, selected,
                  starting_11, bench, formation, call, calls, player_histories, fetched >>
  /\ UNCHANGED scoreVars
  /\ UNCHANGED notCallVars

\* the batches of _fetch_player_history over the candidates
FetchPlayerHistories ==
  /\ pc = "fetch_histories"
  /\ \E failing \in SUBSET (Flaky \cap CandidatesOf(players)) :
       LET r == FetchLoop([ cache |-> client_cache, requests |-> requests,
                            fetched |-> {}, histories |-> player_histories ],
                          ListOf(CandidatesOf(players)), 1, failing)
       IN /\ client_cache' = r.cache
          /\ requests' = r.requests
          /\ fetched' = r.fetched
          /\ player_histories' = r.histories
  /\ pc' = "calculate"
  /\ UNCHANGED << players, player, scores, budget, formationIn, status, returned,
                  selected, starting_11, bench, formation, call, calls >>
  /\ UNCHANGED scoreVars
  /\ UNCHANGED notCallVars

\* _calculate_player_scores, then _optimize_with_scores, then "return squad"
CalculateAndOptimize ==
  /\ pc = "calculate"
  /\ LET cands == CandidatesOf(players)
         sc == ScoresFrom(cands, player_histories)
     IN /\ scores' = sc
        /\ \E timeLimitHit \in BOOLEAN :
             \E out \in Solve("history", cands, budget, sc, timeLimitHit) :
                LET lu == select_starting_eleven(ListOf(out.sel), sc, "history")
                IN /\ status' = out.status
                   /\ selected' = out.sel
                   /\ starting_11' = lu.starting_11
                   /\ bench' = lu.bench
                   /\ formation' = lu.formation
  /\ returned' = "Squad"
  /\ pc' = "returned"
  /\ UNCHANGED << players, player, budget, formationIn, call >>
  /\ UNCHANGED scoreVars
  /\ UNCHANGED callVars
  /\ UNCHANGED notCallVars

\* cost profiles of the pools of optimize_initial_squad
InitialSquadProfiles == {"tier1", "tier3"}

InitInitialSquad ==
  /\ \E cp \in InitialSquadProfiles, extras \in { E \in SUBSET ExtraIds : Cardinality(E) <= 1 } :
       /\ players = BaseIds \cup extras
       /\ player = [ p \in AllIds |-> ElementPlayer(cp, p) ]
  /\ scores = << >>
  /\ budget \in Budgets
  /\ formationIn = None
  /\ status = "none"
  /\ returned = "none"
  /\ selected = {}
  /\ starting_11 = << >>
  /\ bench = << >>
  /\ formation = None
  /\ call = "none"
  /\ pc = "call"
  /\ cand = None /\ weights = HistoryWeights /\ ps = None
  /\ IdleCall
  /\ IdleSquad /\ IdleTransfer /\ IdleCaptain /\ IdleChips /\ IdleFixtures /\ IdleLater

NextInitialSquad ==
  \/ GetBootstrapData
  \/ GetFixtures
  \/ FetchPlayerHistories
  \/ CalculateAndOptimize

SpecInitialSquad == InitInitialSquad /\ [][NextInitialSquad]_vars

----------------------------------------------------------------------------
(* Properties of optimize_initial_squad (SpecInitialSquad) *)

\* the squads that the same call returns on an optimizer instance that made
\* no call before: the histories are those fetched in this call only
FreshResults ==
  LET cands == CandidatesOf(players)
      sc == ScoresFrom(cands, [ p \in fetched |-> UpstreamHistory(p) ])
  IN { out.sel : out \in Solve("history", cands, budget, sc, FALSE) }

\* C12: without time-limit truncation, the squad a call returns is one that
\* the same call (same candidates, weights, budget and provider responses)
\* returns on an instance that made no earlier call
C12_IndependentOfEarlierCalls ==
  (pc = "returned" /\ status = "Optimal") => selected \in FreshResults

\* the request that the client sent last
LastRequest == requests[Len(requests)]

TimesRequested(key) == Cardinality({ i \in 1..Len(requests) : requests[i] = key })

\* C20: when the bootstrap or the fixtures fetch fails, the failure leaves
\* optimize_initial_squad: no squad is returned, the failed fetch was requested
\* once and its response is not in the cache of the client
C20_UpstreamFailurePropagates ==
  pc = "raised" =>
    /\ returned = "ClientError"
    /\ selected = {}
    /\ LastRequest \in { CacheKey("bootstrap", 0), CacheKey("fixtures", 0) }
    /\ TimesRequested(LastRequest) = 1
    /\ LastRequest \notin client_cache

\* the fixtures fetch failed after the bootstrap fetch went through, on an
\* instance that returned a squad before
C20_Witness ==
  /\ pc = "raised"
  /\ calls = 2
  /\ DOMAIN player_histories # {}
  /\ requests = << CacheKey("bootstrap", 0), CacheKey("fixtures", 0) >>
  /\ client_cache = { CacheKey("bootstrap", 0) }
  /\ returned = "ClientError"

\* the candidates whose history request failed in the call
FailedFetches == CandidatesOf(players) \ fetched

\* C21: a history fetch that fails does not abort the batch: the call returns
\* a squad, the histories of the players whose fetch went through are stored,
\* and a player whose fetch failed is scored as a player without history
C21_FailedFetchIsSkipped ==
  pc = "returned" =>
    /\ returned = "Squad"
    /\ \A p \in fetched :
         p \in DOMAIN player_histories /\ player_histories[p] = UpstreamHistory(p)
    /\ \A p \in FailedFetches :
         scores[p] = ScoresFrom(CandidatesOf(players), << >>)[p]

----------------------------------------------------------------------------
(* TransferEngine: evaluate_transfers and execute_transfers.  Prices are in *)
(* tenths of a million, predictions and gains in tenths of a point.         *)

\* config.fpl.min_transfer_gain (3.0), in tenths of a point
min_transfer_gain == 30
\* config.fpl.max_hit_cost
max_hit_cost == 8
TRANSFER_COST_POINTS == 4
MAX_BANKED_TRANSFERS == 5
\* available_players[:20]
TopAvailable == 20

\* free transfers the squad may hold in the explored calls
MaxFreeTransfers == 2

\* TransferCandidate.net_gain_after_hit
net_gain_after_hit(c) == c.expected_gain - 10 * TRANSFER_COST_POINTS

\* dict.get(k, dflt)
Get(d, k, dflt) == IF k \in DOMAIN d THEN d[k] ELSE dflt

RECURSIVE Flatten(_)
Flatten(ss) == IF ss = << >> THEN << >> ELSE Head(ss) \o Flatten(Tail(ss))

\* TransferEngine._group_by_position
group_by_position(list) ==
  [ pos \in Position |-> SelectSeq(list, LAMBDA p : player[p].element_type = pos) ]

\* TransferEngine._evaluate_single_transfer: the list holds the candidate, or
\* nothing where the source returns None
evaluate_single_transfer(player_out, player_in, predictions, b) ==
  LET cost_diff == player[player_in].now_cost - player[player_out].now_cost
      expected_out == Get(predictions, player_out, player[player_out].points_per_game * 3)
      expected_in == Get(predictions, player_in, player[player_in].points_per_game * 3)
  IN IF cost_diff > b THEN << >>
     ELSE << [ player_out |-> player_out, player_in |-> player_in,
               expected_gain |-> expected_in - expected_out,
               cost_difference |-> cost_diff ] >>

\* TransferEngine._is_valid_transfer
is_valid_transfer(c, sq, wildcard, free_hit) ==
  IF wildcard \/ free_hit THEN TRUE
  ELSE LET new_team_count ==
             Cardinality({ i \in 1..Len(sq) : /\ player[sq[i]].team = player[c.player_in].team
                                               /\ sq[i] # c.player_out })
       IN IF new_team_count >= MAX_PLAYERS_PER_TEAM THEN FALSE
          ELSE IF c.expected_gain < min_transfer_gain THEN FALSE
          ELSE TRUE

\* the body of "for position, available_players in position_groups.items()"
PositionCandidates(pos, sq, all_players, predictions, b, wildcard, free_hit) ==
  LET squad_players == group_by_position(sq)[pos]
      sorted == SortDesc(group_by_position(all_players)[pos],
                         [ p \in Range(all_players) |-> Get(predictions, p, 0) ])
      ins == SelectSeq(Take(sorted, TopAvailable), LAMBDA p : p \notin Range(sq))
      ForPlayerIn(player_in) ==
        Flatten([ j \in 1..Len(squad_players) |->
                    LET c == evaluate_single_transfer(squad_players[j], player_in,
                                                      predictions, b)
                    IN IF Len(c) > 0 /\ is_valid_transfer(c[1], sq, wildcard, free_hit)
                       THEN c ELSE << >> ])
  IN IF squad_players = << >> THEN << >>
     ELSE Flatten([ i \in 1..Len(ins) |-> ForPlayerIn(ins[i]) ])

\* a filter that lets every ranked candidate through up to the limit
RECURSIVE FilterLoopNoHitCheck(_, _, _, _)
FilterLoopNoHitCheck(filtered, cands, i, ft) ==
  IF i >= Len(cands) THEN filtered
  ELSE LET f2 == IF cands[i + 1].expected_gain >= min_transfer_gain
                 THEN Append(filtered, cands[i + 1]) ELSE filtered
       IN IF Len(f2) >= ft + (max_hit_cost \div 4) THEN f2
          ELSE FilterLoopNoHitCheck(f2, cands, i + 1, ft)

\* the loop of _filter_transfers; i is the index of enumerate(candidates)
RECURSIVE FilterLoop(_, _, _, _)
FilterLoop(filtered, cands, i, ft) ==
  IF i >= Len(cands) THEN filtered
  ELSE LET c == cands[i + 1]
           keep == IF i < ft THEN c.expected_gain >= min_transfer_gain
                   ELSE net_gain_after_hit(c) >= min_transfer_gain
           f2 == IF keep THEN Append(filtered, c) ELSE filtered
       IN IF Len(f2) >= ft + (max_hit_cost \div 4) THEN f2
          ELSE FilterLoop(f2, cands, i + 1, ft)

\* TransferEngine._filter_transfers
filter_transfers(cands, ft, wildcard, free_hit) ==
  IF wildcard \/ free_hit THEN SelectSeq(cands, LAMBDA c : c.expected_gain > 0)
  ELSE FilterLoop(<< >>, cands, 0, ft)

\* TransferEngine.evaluate_transfers
evaluate_transfers(sq, all_players, predictions, ft, wildcard, free_hit, b) ==
  LET cands == Flatten([ pos \in 1..4 |->
                 PositionCandidates(pos, sq, all_players, predictions, b, wildcard, free_hit) ])
      ranked == SortDesc(cands, [ c \in Range(cands) |-> c.expected_gain ])
  IN filter_transfers(ranked, ft, wildcard, free_hit)

\* TransferEngine._select_transfers_to_make
RECURSIVE SelectLoop(_, _, _, _)
SelectLoop(sel, cands, i, ft) ==
  IF i > Len(cands) THEN sel
  ELSE LET c == cands[i]
       IN IF \E k \in 1..Len(sel) : sel[k].player_out = c.player_out
                                     \/ sel[k].player_in = c.player_in
          THEN SelectLoop(sel, cands, i + 1, ft)
          ELSE IF Len(sel) >= ft /\ net_gain_after_hit(c) < min_transfer_gain THEN sel
          ELSE SelectLoop(Append(sel, c), cands, i + 1, ft)

select_transfers_to_make(cands, ft) == SelectLoop(<< >>, cands, 1, ft)

\* TransferEngine._calculate_new_free_transfers
calculate_new_free_transfers(current_ft, transfers_made) ==
  IF transfers_made = 0 THEN Min(current_ft + 1, MAX_BANKED_TRANSFERS) ELSE 1

\* the loop "for transfer in transfers_to_make" of execute_transfers
RECURSIVE ApplyTransfers(_, _, _, _)
ApplyTransfers(acc, transfers, i, ft) ==
  IF i > Len(transfers) THEN acc
  ELSE LET t == transfers[i]
           removed == SelectSeq(acc.new_players, LAMBDA p : p # t.player_out)
       IN ApplyTransfers(
            [ new_players |-> Append(removed, t.player_in),
              executed |-> Append(acc.executed,
                 [ player_in_id |-> t.player_in, player_out_id |-> t.player_out,
                   transfer_type |-> IF Len(acc.executed) < ft THEN "free" ELSE "hit" ]) ],
            transfers, i + 1, ft)

\* TransferEngine.execute_transfers; the squad handed in is the one whose
\* free_transfers is passed as the free_transfers argument
execute_transfers(cands, sq, ft) ==
  IF cands = << >>
  THEN [ players |-> sq, free_transfers |-> ft, executed |-> << >> ]
  ELSE LET transfers_to_make == select_transfers_to_make(cands, ft)
           r == ApplyTransfers([ new_players |-> sq, executed |-> << >> ],
                               transfers_to_make, 1, ft)
       IN [ players |-> r.new_players,
            free_transfers |-> calculate_new_free_transfers(ft, Len(transfers_to_make)),
            executed |-> r.executed ]

\* players on the market, outside the squad
MarketIds == { PlayerId(DEFENDER, 6), PlayerId(DEFENDER, 7), PlayerId(MIDFIELDER, 6),
               PlayerId(FORWARD, 4) }

MarketTeam(p) == IF p = PlayerId(FORWARD, 4) THEN 3 ELSE 1

MarketCost(p) ==
  CASE p = PlayerId(DEFENDER, 6)   -> 45
    [] p = PlayerId(DEFENDER, 7)   -> 55
    [] p = PlayerId(MIDFIELDER, 6) -> 50
    [] OTHER                       -> 65

\* a player of the managed squad (cost profile tier1, teams spread) or of the market
ManagedPlayer(p) ==
  [ element_type |-> p \div 10,
    team |-> IF p \in MarketIds THEN MarketTeam(p) ELSE TeamOf("plain", p),
    now_cost |-> IF p \in MarketIds THEN MarketCost(p) ELSE CostOf("tier1", p),
    points_per_game |-> 35,
    total_points |-> 90 - 7 * Idx(p) + (p \div 10),
    minutes |-> 900,
    status |-> "a",
    form |-> 30 + 10 * Idx(p),
    selected_by_percent |-> 100 ]

\* the gameweek prediction of a squad player
SquadPrediction(p) == IF Idx(p) = 5 THEN 30 ELSE 35 + 5 * (Idx(p) % 2)

\* the gameweek predictions of the market players that have one
MarketPredictions == { 50, 80, 120 }

\* money in the bank on top of the value of the squad
Banks == { 5, 30 }

coreResultVars == << status, selected, starting_11, bench, formation >>

notTransferVars == << callVars, captainVars, chipVars, laterVars >>

\* TeamManager._make_transfer_decisions -> evaluate_transfers
EvaluateTransfers ==
  /\ pc = "evaluate"
  /\ candidates' = evaluate_transfers(squad, ListOf(players), scores, free_transfers,
                                     wildcard_active, free_hit_active,
                                     remaining_budget(Range(squad), budget))
  /\ call' = "evaluate_transfers"
  /\ returned' = "Candidates"
  /\ pc' = "execute"
  /\ UNCHANGED << players, player, scores, budget, formationIn, squad, free_transfers,
                  wildcard_active, free_hit_active, new_squad, executed_transfers >>
  /\ UNCHANGED << coreResultVars, scoreVars, notTransferVars >>

\* TeamManager._execute_transfers -> execute_transfers
ExecuteTransfers ==
  /\ pc = "execute"
  /\ LET r == execute_transfers(candidates, squad, free_transfers)
     IN /\ new_squad' = [ players |-> r.players, free_transfers |-> r.free_transfers ]
        /\ executed_transfers' = r.executed
  /\ call' = "execute_transfers"
  /\ returned' = "Squad"
  /\ pc' = "executed"
  /\ UNCHANGED << players, player, scores, budget, formationIn, squad, free_transfers,
                  wildcard_active, free_hit_active, candidates >>
  /\ UNCHANGED << coreResultVars, scoreVars, notTransferVars >>

InitTransfer ==
  /\ players = BaseIds \cup MarketIds
  /\ player = [ p \in BaseIds \cup MarketIds |-> ManagedPlayer(p) ]
  /\ squad = ListOf(BaseIds)
  /\ \E predicted \in SUBSET MarketIds, mp \in [ MarketIds -> MarketPredictions ] :
       /\ \A m \in MarketIds \ predicted : mp[m] = 50
       /\ scores = [ p \in BaseIds \cup predicted |->
                      IF p \in MarketIds THEN mp[p] ELSE SquadPrediction(p) ]
  /\ \E bank \in Banks : budget = value(BaseIds) + bank
  /\ free_transfers \in 0..MaxFreeTransfers
  /\ wildcard_active \in BOOLEAN
  /\ free_hit_active \in BOOLEAN
  /\ candidates = << >>
  /\ new_squad = [ players |-> << >>, free_transfers |-> 0 ]
  /\ executed_transfers = << >>
  /\ formationIn = None
  /\ status = "none"
  /\ returned = "none"
  /\ selected = {}
  /\ starting_11 = << >>
  /\ bench = << >>
  /\ formation = None
  /\ call = "none"
  /\ pc = "evaluate"
  /\ cand = None /\ weights = None /\ ps = None
  /\ IdleCall /\ IdleCaptain /\ IdleChips /\ IdleFixtures /\ IdleLater

NextTransfer ==
  \/ EvaluateTransfers
  \/ ExecuteTransfers

SpecTransfer == InitTransfer /\ [][NextTransfer]_vars

----------------------------------------------------------------------------
(* Properties of the transfer engine (SpecTransfer) *)

\* the squad invariant on a list of players: 15 distinct players, 2-5-5-3,
\* at most 3 of a team
SquadInvariant(list) ==
  /\ Len(list) = SQUAD_SIZE
  /\ Cardinality(Range(list)) = SQUAD_SIZE
  /\ \A pos \in Position :
       Cardinality(OfPosition(Range(list), pos)) = SQUAD_REQUIREMENTS[pos]
  /\ \A p \in Range(list) :
       Cardinality(OfTeam(Range(list), player[p].team)) <= MAX_PLAYERS_PER_TEAM

\* C14: the squad returned by execute_transfers for the candidates of
\* evaluate_transfers still satisfies the squad invariant
C14_SquadInvariantPreserved ==
  (pc = "executed" /\ SquadInvariant(squad)) => SquadInvariant(new_squad.players)

\* C15: the squad returned by execute_transfers still costs no more than the
\* budget: remaining_budget >= 0
C15_BudgetPreserved ==
  (pc = "executed" /\ remaining_budget(Range(squad), budget) >= 0)
    => remaining_budget(Range(new_squad.players), budget) >= 0

BelowAfterHit == { i \in 1..Len(candidates) :
                     net_gain_after_hit(candidates[i]) < min_transfer_gain }

\* C16: without wildcard and free hit, every candidate of evaluate_transfers
\* swaps a squad player for a non-squad player of the same position with an
\* expected gain of at least min_transfer_gain, and at most free_transfers of
\* them fall below min_transfer_gain once the 4-point hit is taken off
C16_CandidatesAreWorthwhileSwaps ==
  (pc \in {"execute", "executed"} /\ ~wildcard_active /\ ~free_hit_active) =>
    /\ \A i \in 1..Len(candidates) :
         LET c == candidates[i]
         IN /\ c.player_out \in Range(squad)
            /\ c.player_in \in players \ Range(squad)
            /\ player[c.player_in].element_type = player[c.player_out].element_type
            /\ c.expected_gain >= min_transfer_gain
    /\ Cardinality(BelowAfterHit) <= free_transfers

\* free transfers were available, and the candidates returned for them hold
\* one that is worth a hit and one that is not
C16_Witness ==
  /\ pc = "execute" /\ ~wildcard_active /\ ~free_hit_active
  /\ free_transfers >= 1
  /\ BelowAfterHit # {}
  /\ Cardinality(BelowAfterHit) < Len(candidates)

----------------------------------------------------------------------------
(* CaptainSelector.select_captain_and_vice.  Predicted points, form and    *)
(* ownership are in tenths; a confidence is kept in 1/ConfidenceOne, which  *)
(* makes the mean of up to six factors exact.                               *)

ConfidenceOne == 3000 * 60

\* Squad.get_starting_xi: per position, the formation's count of players
\* with the most total_points
get_starting_xi(list, f) ==
  Flatten([ pos \in 1..4 |->
              Take(SortDesc(SelectSeq(list, LAMBDA p : player[p].element_type = pos),
                            [ p \in Range(list) |-> player[p].total_points ]),
                   f[pos]) ])

\* a fixture of a gameweek
GWFixture(event, h, a, dh, da, fin) == Fixture(h, a, dh, da, fin) @@ [ event |-> event ]

\* the confidence factors of _evaluate_captain_choice, each times 3000
ConfidenceFactors(p, predicted_points, fixtures) ==
  LET pl == player[p]
      player_fixtures == SelectSeq(fixtures, LAMBDA f : f.team_h = pl.team \/ f.team_a = pl.team)
      fixture == player_fixtures[1]
      difficulty == IF fixture.team_h = pl.team THEN fixture.team_h_difficulty
                    ELSE fixture.team_a_difficulty
  IN << Min(predicted_points * 20, 3000) >>
     \o (IF pl.form > 60 THEN << 2700 >> ELSE IF pl.form > 40 THEN << 2100 >> ELSE << >>)
     \o (IF pl.element_type = FORWARD THEN << 2400 >>
         ELSE IF pl.element_type = MIDFIELDER THEN << 2250 >> ELSE << >>)
     \o (IF player_fixtures # << >>
         THEN (IF fixture.team_h = pl.team THEN << 2400 >> ELSE << >>)
              \o (IF difficulty <= 2 THEN << 2700 >>
                  ELSE IF difficulty >= 4 THEN << 1500 >> ELSE << >>)
         ELSE << >>)
     \o (IF pl.now_cost >= 120 THEN << 2550 >> ELSE << >>)

\* CaptainSelector._evaluate_captain_choice
evaluate_captain_choice(p, predicted_points, fixtures, ownership) ==
  LET factors == ConfidenceFactors(p, predicted_points, fixtures)
  IN [ player |-> p,
       expected_points |-> predicted_points,
       confidence |-> (SumSeq(factors, [ x \in Range(factors) |-> x ]) * 60) \div Len(factors),
       is_differential |-> ownership < 100 /\ predicted_points > 70,
       ownership |-> ownership ]

\* a selection that never looks past the first choice
select_best_captain_first_only(choices, triple_captain) == choices[1]

\* CaptainSelector._select_best_captain, for a list that is not empty
select_best_captain(choices, triple_captain) ==
  LET high_confidence == SelectSeq(choices, LAMBDA c : 4 * c.confidence > 3 * ConfidenceOne)
      best == choices[1]
      second == choices[2]
  IN IF triple_captain /\ high_confidence # << >> THEN high_confidence[1]
     ELSE IF /\ Len(choices) > 1
             /\ second.is_differential
             /\ 100 * second.expected_points > 85 * best.expected_points
             /\ 10 * second.ownership < 3 * best.ownership
          THEN second
          ELSE best

\* ownership_data.get(player.id, 0) if ownership_data else 0
OwnershipOf(p) == IF ownership_data = None THEN 0 ELSE Get(ownership_data, p, 0)

\* the captain_choices list after its sort by expected points
captain_choices ==
  LET starting_xi == get_starting_xi(squad, formationIn)
      choices == [ i \in 1..Len(starting_xi) |->
                     evaluate_captain_choice(starting_xi[i], Get(scores, starting_xi[i], 0),
                                             gw_fixtures, OwnershipOf(starting_xi[i])) ]
  IN SortDesc(choices, [ c \in Range(choices) |-> c.expected_points ])

notCaptainVars == << callVars, transferVars, gameweek, chips_used, team_issues, recommendation,
                    laterVars >>

\* TeamManager._select_captaincy -> select_captain_and_vice; an empty starting
\* XI raises ValueError, a single starter raises IndexError
SelectCaptainAndVice ==
  /\ pc = "captaincy"
  /\ IF captain_choices = << >>
     THEN /\ returned' = "ValueError"
          /\ UNCHANGED << captain, vice_captain >>
     ELSE LET c == select_best_captain(captain_choices, triple_captain_active)
              vice_choices == SelectSeq(captain_choices, LAMBDA x : x.player # c.player)
          IN IF vice_choices = << >> /\ Len(captain_choices) < 2
             THEN /\ returned' = "IndexError"
                  /\ UNCHANGED << captain, vice_captain >>
             ELSE /\ returned' = "Captaincy"
                  /\ captain' = << c >>
                  /\ vice_captain' = << IF vice_choices # << >> THEN vice_choices[1]
                                        ELSE captain_choices[2] >>
  /\ call' = "select_captain_and_vice"
  /\ pc' = "captaincy_done"
  /\ UNCHANGED << players, player, scores, budget, formationIn, squad, ownership_data,
                  triple_captain_active, gw_fixtures >>
  /\ UNCHANGED << coreResultVars, scoreVars, notCaptainVars >>

\* the players whose prediction and ownership vary
Stars == { PlayerId(DEFENDER, 1), PlayerId(MIDFIELDER, 1), PlayerId(FORWARD, 1) }
StarPredictions == { 60, 90, 100 }
Ownerships == { 50, 400 }

\* the squads handed in: the full squad, one goalkeeper, nobody
ManagedSquads == { ListOf(BaseIds), << PlayerId(GOALKEEPER, 1) >>, << >> }

CaptainFormations == { << 1, 4, 4, 2 >>, << 1, 3, 4, 3 >> }

\* the fixtures of the gameweek: the forward's team at home to an easy
\* opponent and the midfielder's team away to a hard one, or no fixture
CaptainFixtures ==
  { << GWFixture(1, 3, 1, 2, 4, FALSE), GWFixture(1, 6, 2, 3, 3, FALSE) >>, << >> }

InitCaptain ==
  /\ players = BaseIds
  /\ player = [ p \in BaseIds |-> ManagedPlayer(p) ]
  /\ squad \in ManagedSquads
  /\ \E sp \in [ Stars -> StarPredictions ] :
       scores = [ p \in { q \in BaseIds : Idx(q) # 2 } |-> IF p \in Stars THEN sp[p] ELSE 40 ]
  /\ ownership_data \in {None} \cup [ Stars -> Ownerships ]
  /\ triple_captain_active \in BOOLEAN
  /\ gw_fixtures \in CaptainFixtures
  /\ formationIn \in CaptainFormations
  /\ captain = << >>
  /\ vice_captain = << >>
  /\ budget = value(BaseIds)
  /\ status = "none"
  /\ returned = "none"
  /\ selected = {}
  /\ starting_11 = << >>
  /\ bench = << >>
  /\ formation = None
  /\ call = "none"
  /\ pc = "captaincy"
  /\ cand = None /\ weights = None /\ ps = None
  /\ IdleCall /\ IdleTransfer /\ IdleChips /\ IdleLater

NextCaptain == SelectCaptainAndVice

SpecCaptain == InitCaptain /\ [][NextCaptain]_vars

----------------------------------------------------------------------------
(* Properties of the captaincy (SpecCaptain) *)

\* the starters in the order of their predicted points
Ranked == [ i \in 1..Len(captain_choices) |-> captain_choices[i].player ]

\* the differential override: the second-ranked starter is a differential,
\* within 15% of the first on points and below 30% of its ownership
DifferentialOverride ==
  /\ Len(captain_choices) > 1
  /\ captain_choices[2].is_differential
  /\ 100 * captain_choices[2].expected_points > 85 * captain_choices[1].expected_points
  /\ 10 * captain_choices[2].ownership < 3 * captain_choices[1].ownership

\* the vice-captain is the highest-ranked starter that is not the captain
ViceIsBestOfTheRest ==
  /\ vice_captain[1].player # captain[1].player
  /\ \E i \in 1..Len(Ranked) :
       /\ Ranked[i] = vice_captain[1].player
       /\ \A j \in 1..(i - 1) : Ranked[j] = captain[1].player

\* C17 as stated: the captain is the first-ranked starter, or the second
\* under the differential override; the vice-captain is the highest-ranked
\* remaining starter; the two differ
C17_CaptainIsTopRanked ==
  returned = "Captaincy" =>
    /\ captain[1].player = (IF DifferentialOverride THEN Ranked[2] ELSE Ranked[1])
    /\ ViceIsBestOfTheRest

\* starters whose confidence is above 0.75
HighConfidence == { i \in 1..Len(captain_choices) :
                      4 * captain_choices[i].confidence > 3 * ConfidenceOne }

\* C17 amended: with the triple captain active and a starter of confidence
\* above 0.75, the captain is the highest-ranked such starter; otherwise it is
\* the first-ranked starter, or the second under the differential override;
\* the vice-captain is the highest-ranked remaining starter and differs from
\* the captain
C17_CaptainSelection ==
  returned = "Captaincy" =>
    /\ IF triple_captain_active /\ HighConfidence # {}
       THEN \E i \in HighConfidence :
              /\ captain[1].player = Ranked[i]
              /\ \A j \in HighConfidence : i <= j
       ELSE captain[1].player = (IF DifferentialOverride THEN Ranked[2] ELSE Ranked[1])
    /\ ViceIsBestOfTheRest

\* the triple captain went to a starter ranked third or lower, and the
\* vice-captaincy to the first-ranked starter
C17_Witness ==
  /\ returned = "Captaincy"
  /\ triple_captain_active
  /\ \E i \in HighConfidence : i >= 3 /\ captain[1].player = Ranked[i]
  /\ vice_captain[1].player = Ranked[1]

----------------------------------------------------------------------------
(* ChipStrategy.evaluate_chip_usage over the gameweeks of a season.         *)
(* Predicted points are in tenths, an expected benefit in thousandths of a  *)
(* point, a fixture difficulty average in thousandths, and a confidence in  *)
(* 1/ChipConfidenceOne, which makes the mean of up to five factors exact.   *)

ChipConfidenceOne == 100 * 60

\* config.fpl.wildcard_team_issues
wildcard_threshold == 5
\* config.fpl.bench_boost_min_points, in tenths
bench_boost_threshold == 200
\* config.fpl.triple_captain_min_points, in tenths
triple_captain_threshold == 100

\* the values shared by the members of the enums Chip and ChipType
ChipValues == << "wildcard", "freehit", "bboost", "3xc" >>

\* a member of constants.Chip(Enum) and a member of models.ChipType(str, Enum):
\* members of different enum classes never compare equal, whatever their value
ChipMember(v) == << "Chip", v >>
ChipType(v) == << "ChipType", v >>

\* the members of Chip in definition order
Chip == [ i \in 1..4 |-> ChipMember(ChipValues[i]) ]

CHIPS_PER_HALF == [ i \in 1..4 |-> 1 ]

\* the ChipUsage that _load_existing_team builds from a chip event of the
\* manager's history
ChipUsage(gw, name) ==
  [ gameweek |-> gw, chip |-> ChipType(name),
    phase |-> IF gw <= 19 THEN "first_half" ELSE "second_half" ]

\* ChipStrategy._get_phase (the value of the GameWeekPhase member)
get_phase(gw) == IF gw <= 19 THEN "first_half" ELSE "second_half"

\* ChipStrategy._get_available_chips
get_available_chips(used, phase) ==
  LET phase_chips == SelectSeq(used, LAMBDA c : c.phase = phase)
      used_count(i) == Cardinality({ k \in 1..Len(phase_chips) : phase_chips[k].chip = Chip[i] })
  IN  SelectSeq(Chip, LAMBDA chip :
          \E i \in 1..4 : Chip[i] = chip /\ used_count(i) < CHIPS_PER_HALF[i])

\* ChipStrategy._get_minimum_benefit, in thousandths
get_minimum_benefit(chip) ==
  CASE chip = ChipMember("wildcard") -> 10000
    [] chip = ChipMember("freehit")  -> 15000
    [] chip = ChipMember("bboost")   -> 15000
    [] chip = ChipMember("3xc")      -> 5000
    [] OTHER                         -> 10000

RECURSIVE SumList(_)
SumList(s) == IF s = << >> THEN 0 ELSE Head(s) + SumList(Tail(s))

\* np.mean of a list of confidence factors given in hundredths
MeanConfidence(factors) == (SumList(factors) * 60) \div Len(factors)

\* Squad.get_bench
get_bench(list, f) ==
  LET starting_ids == Range(get_starting_xi(list, f))
  IN  SelectSeq(list, LAMBDA p : p \notin starting_ids)

\* ChipStrategy._calculate_squad_fixture_difficulty, in thousandths
calculate_squad_fixture_difficulty(list, f, fixtures, next_n) ==
  LET xi == get_starting_xi(list, f)
      player_fixtures(p) ==
        Take(SelectSeq(fixtures, LAMBDA x :
                 (x.team_h = player[p].team \/ x.team_a = player[p].team) /\ ~x.finished),
             next_n)
      of(p) == LET pf == player_fixtures(p)
               IN  [ k \in 1..Len(pf) |->
                       IF pf[k].team_h = player[p].team THEN pf[k].team_h_difficulty
                       ELSE pf[k].team_a_difficulty ]
      difficulties == Flatten([ i \in 1..Len(xi) |-> of(xi[i]) ])
  IN  IF difficulties = << >> THEN 3000
      ELSE (1000 * SumList(difficulties)) \div Len(difficulties)

RECURSIVE InsertAscending(_, _)
InsertAscending(sorted, x) ==
  IF sorted = << >> THEN << x >>
  ELSE IF x < Head(sorted) THEN << x >> \o sorted
  ELSE << Head(sorted) >> \o InsertAscending(Tail(sorted), x)

RECURSIVE SortAscending(_)
SortAscending(s) ==
  IF s = << >> THEN << >>
  ELSE InsertAscending(SortAscending(SubSeq(s, 1, Len(s) - 1)), s[Len(s)])

\* ChipStrategy._calculate_best_possible_difficulty, in thousandths
calculate_best_possible_difficulty(fixtures, gw) ==
  LET gwf == SelectSeq(fixtures, LAMBDA x : x.event = gw)
      difficulties == SortAscending([ k \in 1..Len(gwf) |->
                          Min(gwf[k].team_h_difficulty, gwf[k].team_a_difficulty) ])
      easiest == Take(difficulties, 11)
  IN  IF gwf = << >> THEN 3000
      ELSE (1000 * SumList(easiest)) \div Len(easiest)

\* ChipStrategy._count_playing_players
count_playing_players(list, fixtures, gw) ==
  LET gwf == SelectSeq(fixtures, LAMBDA x : x.event = gw)
      playing_teams == { gwf[k].team_h : k \in 1..Len(gwf) } \cup
                       { gwf[k].team_a : k \in 1..Len(gwf) }
  IN  Len(SelectSeq(list, LAMBDA p : player[p].team \in playing_teams))

\* ChipStrategy._is_rotation_risk
is_rotation_risk(p) == player[p].minutes < 180 /\ player[p].now_cost >= 80

\* ChipStrategy._has_double_gameweek
has_double_gameweek(p, gw) == FALSE

\* ChipStrategy._get_player_fixtures
get_player_fixtures(p, gw) == << >>

\* the confidence factors of an evaluator that apply, in the order of the code
Factors(tests) ==
  LET picked == SelectSeq(tests, LAMBDA t : t[1]) IN [ k \in 1..Len(picked) |-> picked[k][2] ]

ChipRecommendation(chip, gw, eb, factors) ==
  [ chip |-> chip, gameweek |-> gw, expected_benefit |-> eb,
    confidence |-> MeanConfidence(factors) ]

\* ChipStrategy._evaluate_wildcard
evaluate_wildcard(list, f, b, issue_count, gw, fixtures) ==
  LET injured_count == Len(SelectSeq(list, LAMBDA p : player[p].status # "a"))
      value_decline == value(Range(list)) - b
      current_difficulty == calculate_squad_fixture_difficulty(list, f, fixtures, 5)
      factors == Factors(<< << issue_count >= wildcard_threshold, 90 >>,
                            << injured_count >= 3, 85 >>,
                            << value_decline < -20, 70 >>,
                            << current_difficulty > 3500, 75 >>,
                            << gw \in { 8, 9, 10, 28, 29, 30 }, 60 >> >>)
  IN  IF factors = << >> THEN None
      ELSE << ChipRecommendation(ChipMember("wildcard"), gw,
                                 1000 * (issue_count * 2 + injured_count * 3), factors) >>

\* ChipStrategy._evaluate_free_hit
evaluate_free_hit(list, f, fixtures, gw) ==
  LET playing_count == count_playing_players(list, fixtures, gw)
      current_avg == calculate_squad_fixture_difficulty(list, f, fixtures, 1)
      best_possible_avg == calculate_best_possible_difficulty(fixtures, gw)
      fixture_swing == current_avg - best_possible_avg
      rotation_risk == Len(SelectSeq(list, is_rotation_risk))
      factors == Factors(<< << playing_count < 8, 95 >>,
                            << fixture_swing > 1500, 80 >>,
                            << rotation_risk >= 5, 70 >> >>)
  IN  IF factors = << >> THEN None
      ELSE << ChipRecommendation(ChipMember("freehit"), gw,
                                 (11 - playing_count) * 3000 + fixture_swing * 5, factors) >>

\* ChipStrategy._evaluate_bench_boost
evaluate_bench_boost(list, f, predictions, gw) ==
  LET bench_players == get_bench(list, f)
      bench_points == SumList([ k \in 1..Len(bench_players) |->
                                  Get(predictions, bench_players[k], 0) ])
      dgw_players == Len(SelectSeq(bench_players, LAMBDA p : has_double_gameweek(p, gw)))
      bench_value == SumList([ k \in 1..Len(bench_players) |->
                                 player[bench_players[k]].now_cost ])
      fit_bench == \A p \in Range(bench_players) : player[p].status = "a"
      factors == Factors(<< << bench_points >= bench_boost_threshold, 85 >>,
                            << dgw_players >= 2, 90 >>,
                            << bench_value >= 200, 70 >>,
                            << fit_bench, 80 >> >>)
  IN  IF ~fit_bench THEN None
      ELSE << ChipRecommendation(ChipMember("bboost"), gw, 100 * bench_points, factors) >>

\* ChipStrategy._evaluate_triple_captain
evaluate_triple_captain(list, f, predictions, gw) ==
  LET starting == get_starting_xi(list, f)
      captain_options == SortDesc(starting,
                                  [ p \in Range(starting) |-> Get(predictions, p, 0) ])
      best_player == captain_options[1]
      best_points == Get(predictions, best_player, 0)
      player_fixtures == get_player_fixtures(best_player, gw)
      factors == IF captain_options = << >> THEN << >>
                 ELSE Factors(<< << best_points >= triple_captain_threshold, 85 >>,
                                 << has_double_gameweek(best_player, gw), 95 >>,
                                 << /\ player_fixtures # << >>
                                    /\ \A k \in 1..Len(player_fixtures) :
                                         player_fixtures[k].difficulty <= 2, 90 >>,
                                 << player[best_player].now_cost >= 130, 75 >> >>)
  IN  IF factors = << >> THEN None
      ELSE << ChipRecommendation(ChipMember("3xc"), gw,
                                 100 * (best_points * 3 - best_points * 2), factors) >>

\* max(recommendations, key = expected_benefit * confidence): the first of
\* the recommendations with the greatest product
BestRecommendation(recs) ==
  LET key(r) == r.expected_benefit * r.confidence
      i == CHOOSE k \in 1..Len(recs) :
             /\ \A j \in 1..Len(recs) : key(recs[j]) <= key(recs[k])
             /\ \A j \in 1..(k - 1) : key(recs[j]) < key(recs[k])
  IN  recs[i]

\* the recommendations evaluate_chip_usage collects, in the order of the code
ChipRecommendations(list, f, b, gw, used, fixtures, predictions, issue_count) ==
  LET available_chips == Range(get_available_chips(used, get_phase(gw)))
  IN  (IF ChipMember("wildcard") \in available_chips
       THEN evaluate_wildcard(list, f, b, issue_count, gw, fixtures) ELSE << >>)
      \o (IF ChipMember("freehit") \in available_chips
          THEN evaluate_free_hit(list, f, fixtures, gw) ELSE << >>)
      \o (IF ChipMember("bboost") \in available_chips
          THEN evaluate_bench_boost(list, f, predictions, gw) ELSE << >>)
      \o (IF ChipMember("3xc") \in available_chips
          THEN evaluate_triple_captain(list, f, predictions, gw) ELSE << >>)

\* ChipStrategy.evaluate_chip_usage
evaluate_chip_usage(list, f, b, gw, used, fixtures, predictions, issue_count) ==
  LET recommendations ==
        ChipRecommendations(list, f, b, gw, used, fixtures, predictions, issue_count)
      best == BestRecommendation(recommendations)
  IN  IF get_available_chips(used, get_phase(gw)) = << >> THEN None
      ELSE IF recommendations # << >>
              /\ best.expected_benefit > get_minimum_benefit(best.chip)
      THEN << best >>
      ELSE None

notChipVars == << callVars, transferVars, captainVars, laterVars >>

\* TeamManager._decide_chip_usage for the gameweek
DecideChipUsage ==
  /\ pc = "chips"
  /\ recommendation' =
       IF squad = << >> THEN None
       ELSE evaluate_chip_usage(squad, formationIn, budget, gameweek, chips_used,
                                gw_fixtures, scores, team_issues)
  /\ pc' = "chips_done"
  /\ UNCHANGED << players, player, scores, budget, formationIn, gameweek, chips_used,
                  team_issues, gw_fixtures >>
  /\ UNCHANGED << coreResultVars, returned, call, scoreVars, notChipVars >>

\* the gameweeks at which the manager is run
ChipGameweeks == { 8, 12, 20 }

\* the squad issues found in a gameweek
IssueCounts == { 0, 5 }

\* the players out in a gameweek: nobody, three starters, a bench player
InjurySets ==
  { {},
    { PlayerId(DEFENDER, 1), PlayerId(MIDFIELDER, 1), PlayerId(FORWARD, 1) },
    { PlayerId(FORWARD, 3) } }

\* the prediction of each bench player and of the best starter
BenchPredictions == { 35, 60 }
TopPredictions == { 40, 100 }

\* the fixtures known in gameweek gw: none, a full round of average
\* difficulty, a round that is hard for the teams of the squad only
ChipFixtures(gw) ==
  { << >>,
    << GWFixture(gw, 4, 5, 3, 3, FALSE), GWFixture(gw, 6, 7, 3, 3, FALSE),
       GWFixture(gw, 1, 2, 3, 3, FALSE), GWFixture(gw, 3, 8, 3, 3, FALSE) >>,
    << GWFixture(gw, 4, 5, 5, 5, FALSE), GWFixture(gw, 6, 7, 5, 5, FALSE),
       GWFixture(gw, 1, 2, 5, 5, FALSE), GWFixture(gw, 3, 8, 5, 1, FALSE),
       GWFixture(gw, 9, 10, 1, 1, FALSE), GWFixture(gw, 11, 12, 1, 1, FALSE) >> }

\* the players of the squad with those of injured out
ChipPlayers(injured) ==
  [ p \in BaseIds |->
      [ ManagedPlayer(p) EXCEPT !.status = IF p \in injured THEN "i" ELSE "a" ] ]

\* the predictions of a gameweek: tp for the first forward, bp for each player
\* a 4-4-2 leaves on the bench, 4.0 for the others
ChipPredictions(bp, tp) ==
  [ p \in BaseIds |->
      IF p = PlayerId(FORWARD, 1) THEN tp
      ELSE IF Idx(p) > << 1, 4, 4, 2 >>[p \div 10] THEN bp
      ELSE 40 ]

\* the state of the squad and of the game found in gameweek gw
ChipSituation(gw, issues, injured, bp, tp, fixtures) ==
  /\ gameweek' = gw
  /\ team_issues' = issues
  /\ player' = ChipPlayers(injured)
  /\ scores' = ChipPredictions(bp, tp)
  /\ gw_fixtures' = fixtures

\* a later run of the manager: TeamManager._load_existing_team reads the
\* chips played from the manager's history, which now holds the chip of the
\* last recommendation if the manager played it
LoadExistingTeam ==
  /\ pc = "chips_done"
  /\ \E played \in BOOLEAN :
       chips_used' =
         IF played /\ recommendation # None
         THEN Append(chips_used, ChipUsage(gameweek, recommendation[1].chip[2]))
         ELSE chips_used
  /\ \E gw \in ChipGameweeks, issues \in IssueCounts, injured \in InjurySets,
        bp \in BenchPredictions, tp \in TopPredictions :
       /\ gw > gameweek
       /\ \E fixtures \in ChipFixtures(gw) :
            ChipSituation(gw, issues, injured, bp, tp, fixtures)
  /\ recommendation' = None
  /\ pc' = "chips"
  /\ UNCHANGED << players, budget, formationIn >>
  /\ UNCHANGED << coreResultVars, returned, call, scoreVars, notChipVars >>

InitChips ==
  /\ players = BaseIds
  /\ squad = ListOf(BaseIds)
  /\ formationIn = << 1, 4, 4, 2 >>
  /\ gameweek \in ChipGameweeks
  /\ team_issues \in IssueCounts
  /\ \E injured \in InjurySets : player = ChipPlayers(injured)
  /\ \E bp \in BenchPredictions, tp \in TopPredictions : scores = ChipPredictions(bp, tp)
  /\ gw_fixtures \in ChipFixtures(gameweek)
  /\ \E bank \in Banks :
       budget = SumOver(BaseIds, [ p \in BaseIds |-> ManagedPlayer(p).now_cost ]) + bank
  /\ chips_used = << >>
  /\ recommendation = None
  /\ status = "none"
  /\ returned = "none"
  /\ selected = {}
  /\ starting_11 = << >>
  /\ bench = << >>
  /\ formation = None
  /\ call = "none"
  /\ pc = "chips"
  /\ cand = None /\ weights = None /\ ps = None
  /\ IdleCall /\ IdleTransfer /\ IdleCaptain /\ IdleLater

NextChips == DecideChipUsage \/ LoadExistingTeam

SpecChips == InitChips /\ [][NextChips]_vars

\* the recommendations collected for the gameweek whose expected benefit
\* exceeds the minimum of their chip
AboveMinimum ==
  LET recs == ChipRecommendations(squad, formationIn, budget, gameweek, chips_used,
                                  gw_fixtures, scores, team_issues)
  IN  { recs[k] : k \in { j \in 1..Len(recs) :
                            recs[j].expected_benefit > get_minimum_benefit(recs[j].chip) } }

\* C18: evaluate_chip_usage returns at most one recommendation, the one it
\* returns has the greatest expected_benefit * confidence among the available
\* chips that exceed their minimum benefit, and it returns none only when no
\* available chip exceeds its minimum
C18_BestChipAboveMinimum ==
  pc = "chips_done" =>
    /\ Len(recommendation) <= 1
    /\ recommendation # None =>
         /\ recommendation[1] \in AboveMinimum
         /\ \A r \in AboveMinimum :
              r.expected_benefit * r.confidence
                <= recommendation[1].expected_benefit * recommendation[1].confidence
    /\ recommendation = None => AboveMinimum = {}

\* the chips that chips_used records as used in the half of gameweek gw
UsedInHalf(gw) ==
  { chips_used[k].chip[2] : k \in { j \in 1..Len(chips_used) :
                                      chips_used[j].phase = get_phase(gw) } }

\* C19: a chip that chips_used records as used in the half of the current
\* gameweek is never recommended, and a chip used in the first half only can
\* be recommended in the second
C19_OncePerHalf ==
  (pc = "chips_done" /\ recommendation # None) =>
    recommendation[1].chip[2] \notin UsedInHalf(gameweek)

----------------------------------------------------------------------------
(* The batches of history requests of optimize_initial_squad, request by   *)
(* request.  The loop is the same in SquadOptimizerWithHistory and in      *)
(* PreseasonSquadOptimizer.                                                *)

\* the values of the variables of the optimizer calls and of the scoring
\* pass in a specification that leaves them out
IdleOptimizer ==
  /\ players = {}
  /\ player = << >>
  /\ scores = << >>
  /\ budget = INITIAL_BUDGET
  /\ formationIn = None
  /\ status = "none"
  /\ returned = "none"
  /\ selected = {}
  /\ starting_11 = << >>
  /\ bench = << >>
  /\ formation = None
  /\ cand = None /\ weights = None /\ ps = None

batch_size == 20

\* the numbers of candidates whose history is fetched
CandidateCounts == { 0, 1, 20, 21, 41 }

\* the end of the batch that starts at i: candidates[i:i+batch_size]
BatchEnd(i, n) == Min(i + batch_size, n)

NeedsPauseAlways(i, n) == TRUE
\* "if i + batch_size < len(candidates): await asyncio.sleep(0.5)"
NeedsPause(i, n) == i + batch_size < n

notBatchVars == << optimizerVars, scoreVars, callVars, transferVars, captainVars, chipVars,
                   sessionVars, cacheVars >>

\* "for i in range(0, len(candidates), batch_size)": the loop is entered, the
\* tasks of the batch are built and handed to asyncio.gather
BeginBatch ==
  /\ pc = "batch_loop"
  /\ batching.i < batching.n
  /\ pc' = "gather"
  /\ UNCHANGED << batching, notBatchVars >>

\* the loop is left
EndBatches ==
  /\ pc = "batch_loop"
  /\ batching.i >= batching.n
  /\ pc' = "fetched"
  /\ UNCHANGED << batching, notBatchVars >>

\* a task of the batch runs up to its request: _fetch_player_history ->
\* client.get_player_summary
StartRequest ==
  /\ pc = "gather"
  /\ batching.started < BatchEnd(batching.i, batching.n)
  /\ batching' = [ batching EXCEPT !.started = @ + 1 ]
  /\ UNCHANGED << pc, notBatchVars >>

\* a request in flight completes, with a summary or with an exception that
\* _fetch_player_history turns into None
CompleteRequest ==
  /\ pc = "gather"
  /\ batching.completed < batching.started
  /\ batching' = [ batching EXCEPT !.completed = @ + 1 ]
  /\ UNCHANGED << pc, notBatchVars >>

\* asyncio.gather returns once every task of the batch is done; the histories
\* are stored, and the loop sleeps or goes on
GatherReturns ==
  /\ pc = "gather"
  /\ batching.completed = BatchEnd(batching.i, batching.n)
  /\ IF NeedsPause(batching.i, batching.n)
     THEN pc' = "sleep" /\ UNCHANGED batching
     ELSE pc' = "batch_loop" /\ batching' = [ batching EXCEPT !.i = @ + batch_size ]
  /\ UNCHANGED notBatchVars

\* "await asyncio.sleep(0.5)" is over
Sleep ==
  /\ pc = "sleep"
  /\ batching' = [ batching EXCEPT !.pauses = @ + 1, !.i = @ + batch_size ]
  /\ pc' = "batch_loop"
  /\ UNCHANGED notBatchVars

InitBatches ==
  /\ \E n \in CandidateCounts :
       batching = [ n |-> n, i |-> 0, started |-> 0, completed |-> 0, pauses |-> 0 ]
  /\ call \in { "history", "preseason" }
  /\ pc = "batch_loop"
  /\ IdleOptimizer
  /\ IdleCall /\ IdleSquad /\ IdleTransfer /\ IdleCaptain /\ IdleChips /\ IdleFixtures
  /\ IdleSession /\ IdleCache

NextBatches ==
  \/ BeginBatch
  \/ EndBatches
  \/ StartRequest
  \/ CompleteRequest
  \/ GatherReturns
  \/ Sleep

SpecBatches == InitBatches /\ [][NextBatches]_vars

\* the history requests in flight
InFlight == batching.started - batching.completed

\* the number of batches of n candidates
NumBatches(n) == (n + batch_size - 1) \div batch_size

\* C26: at most 20 history requests are in flight; a request of batch k+1 has
\* started only if every request of the batches up to k has completed and k
\* pauses have elapsed; there is one pause between two consecutive batches
\* and none after the last batch
C26_BatchesOfTwenty ==
  /\ InFlight <= batch_size
  /\ \A k \in 1..NumBatches(batching.n) :
       batching.started > k * batch_size =>
         /\ batching.completed >= k * batch_size
         /\ batching.pauses >= k
  /\ batching.pauses <= Max(NumBatches(batching.n) - 1, 0)
  /\ batching.pauses <= batching.i \div batch_size
  /\ pc = "fetched" => batching.pauses = Max(NumBatches(batching.n) - 1, 0)

\* the twenty requests of the second batch are in flight, after one pause
C26_Witness ==
  /\ pc = "gather"
  /\ batching.i = batch_size
  /\ InFlight = batch_size
  /\ batching.completed = batch_size
  /\ batching.pauses = 1

----------------------------------------------------------------------------
(* The transfers of a managed squad over consecutive gameweeks *)

\* gameweeks of a run
MaxGameweeks == 3

\* the gameweek prediction of a market player
SeasonMarketPredictions == { 50, 120 }

\* the predictions of a gameweek
SeasonPredictions(mp) ==
  [ p \in BaseIds \cup MarketIds |-> IF p \in MarketIds THEN mp[p] ELSE SquadPrediction(p) ]

\* TeamManager._execute_transfers stored the new squad ("self.current_squad =
\* new_squad"); the next gameweek is run on it, with its free_transfers
NextGameweek ==
  /\ pc = "executed"
  /\ gameweek < MaxGameweeks
  /\ gameweek' = gameweek + 1
  /\ squad' = new_squad.players
  /\ free_transfers' = new_squad.free_transfers
  /\ \E mp \in [ MarketIds -> SeasonMarketPredictions ] : scores' = SeasonPredictions(mp)
  /\ candidates' = << >>
  /\ pc' = "evaluate"
  /\ UNCHANGED << players, player, budget, formationIn, returned, call, wildcard_active,
                  free_hit_active, new_squad, executed_transfers >>
  /\ UNCHANGED << coreResultVars, scoreVars, callVars, captainVars, laterVars,
                  chips_used, team_issues, gw_fixtures, recommendation >>

InitSeason ==
  /\ players = BaseIds \cup MarketIds
  /\ player = [ p \in BaseIds \cup MarketIds |-> ManagedPlayer(p) ]
  /\ squad = ListOf(BaseIds)
  /\ \E mp \in [ MarketIds -> SeasonMarketPredictions ] : scores = SeasonPredictions(mp)
  /\ \E bank \in Banks : budget = value(BaseIds) + bank
  /\ free_transfers = 1
  /\ wildcard_active = FALSE
  /\ free_hit_active = FALSE
  /\ candidates = << >>
  /\ new_squad = [ players |-> << >>, free_transfers |-> 0 ]
  /\ executed_transfers = << >>
  /\ gameweek = 1
  /\ chips_used = << >> /\ team_issues = 0 /\ recommendation = << >>
  /\ formationIn = None
  /\ status = "none"
  /\ returned = "none"
  /\ selected = {}
  /\ starting_11 = << >>
  /\ bench = << >>
  /\ formation = None
  /\ call = "none"
  /\ pc = "evaluate"
  /\ cand = None /\ weights = None /\ ps = None
  /\ IdleCall /\ IdleCaptain /\ IdleFixtures /\ IdleLater

NextSeason ==
  \/ EvaluateTransfers
  \/ ExecuteTransfers
  \/ NextGameweek

SpecSeason == InitSeason /\ [][NextSeason]_vars

\* C27: the free transfers of the squad stay between 1 and
\* MAX_BANKED_TRANSFERS; a gameweek without transfer banks one more free
\* transfer (up to the cap) and a gameweek with a transfer leaves exactly 1
C27_FreeTransfersBanked ==
  /\ free_transfers \in 1..MAX_BANKED_TRANSFERS
  /\ pc = "executed" =>
       new_squad.free_transfers =
         IF executed_transfers = << >>
         THEN Min(free_transfers + 1, MAX_BANKED_TRANSFERS)
         ELSE 1

----------------------------------------------------------------------------
(* TeamManager.run_gameweek from the captaincy on: _select_captains, then   *)
(* _optimize_lineup, then the GameWeekDecision                              *)

\* TeamManager._optimize_lineup -> optimize_starting_xi on the current squad,
\* and the GameWeekDecision built from the captaincy and the bench
OptimizeLineup ==
  /\ pc = "captaincy_done"
  /\ returned = "Captaincy"
  /\ LET S == Range(squad)
         pred == Predictions(S, scores)
     IN \E X \in OptimalStartingXI(S, formationIn, pred) :
          /\ starting_11' = SelectSeq(squad, LAMBDA p : p \in X)
          /\ bench' = order_bench(SelectSeq(squad, LAMBDA p : p \notin X), pred)
          /\ formation' = [ pos \in 1..4 |-> Cardinality(OfPosition(X, pos)) ]
  /\ returned' = "GameWeekDecision"
  /\ call' = "run_gameweek"
  /\ pc' = "decided"
  /\ UNCHANGED << players, player, scores, budget, formationIn, status, selected, squad,
                  gw_fixtures >>
  /\ UNCHANGED << captainVars, scoreVars, notCaptainVars >>

\* the gameweek predictions of the three forwards; every other player has 40
ForwardPredictions == { 60, 90, 100 }

\* the state run_gameweek is in before the captaincy: the managed squad, a
\* prediction for every player, and no ownership data (run_gameweek hands
\* None to the captain selector)
InitGameweek ==
  /\ players = BaseIds
  /\ player = [ p \in BaseIds |-> ManagedPlayer(p) ]
  /\ squad \in ManagedSquads
  /\ \E fp \in [ OfPosition(BaseIds, FORWARD) -> ForwardPredictions ] :
       scores = [ p \in BaseIds |-> IF p \div 10 = FORWARD THEN fp[p] ELSE 40 ]
  /\ ownership_data = None
  /\ triple_captain_active \in BOOLEAN
  /\ gw_fixtures \in CaptainFixtures
  /\ formationIn \in CaptainFormations
  /\ captain = << >>
  /\ vice_captain = << >>
  /\ budget = value(BaseIds)
  /\ status = "none"
  /\ returned = "none"
  /\ selected = {}
  /\ starting_11 = << >>
  /\ bench = << >>
  /\ formation = None
  /\ call = "none"
  /\ pc = "captaincy"
  /\ cand = None /\ weights = None /\ ps = None
  /\ IdleCall /\ IdleTransfer /\ IdleChips /\ IdleLater

NextGameweekDecision ==
  \/ SelectCaptainAndVice
  \/ OptimizeLineup

SpecGameweek == InitGameweek /\ [][NextGameweekDecision]_vars

\* C28: in a GameWeekDecision neither the captain nor the vice-captain is in
\* bench_order
C28_CaptainsStart ==
  pc = "decided" =>
    /\ captain[1].player \notin Range(bench)
    /\ vice_captain[1].player \notin Range(bench)

----------------------------------------------------------------------------
(* FPLClient: the session of the `async with` blocks and the timed cache of *)
(* _make_request.  Time is in seconds.                                      *)

cache_duration == 300

\* nesting depth of `async with` blocks explored; monitor_deadlines opens the
\* client and calls run_gameweek, which opens it again
MaxNesting == 2

\* the clock stops here
MaxTime == 600

\* seconds that pass between two calls
TickSteps == { 150, 300 }

ClientKeys == { CacheKey("bootstrap", 0), CacheKey("fixtures", 0) }

\* a validity test that never looks at the clock
is_cache_valid_forever(cache, expiry, cache_key, t) == cache_key \in cache
\* FPLClient._is_cache_valid
is_cache_valid(cache, expiry, cache_key, t) ==
  IF cache_key \notin cache THEN FALSE ELSE t < Get(expiry, cache_key, 0)

\* FPLClient._set_cache with duration None: the new _cache_expiry
set_cache(expiry, cache_key, t) ==
  [ k \in DOMAIN expiry \cup {cache_key} |->
      IF k = cache_key THEN t + cache_duration ELSE expiry[k] ]

notClientVars == << optimizerVars, pc, scoreVars, calls, player_histories, fetched, requests,
                    transferVars, captainVars, chipVars, batchVars >>

\* FPLClient.__aenter__: a session is created only when self.session is falsy;
\* a ClientSession object is truthy, closed or not
AEnter ==
  /\ open_blocks < MaxNesting
  /\ open_blocks' = open_blocks + 1
  /\ IF session = "none"
     THEN session' = "open" /\ owned_session' = TRUE
     ELSE UNCHANGED << session, owned_session >>
  /\ UNCHANGED << sent_on, client_cache, cacheVars, notClientVars >>

\* FPLClient.__aexit__: an owned session is closed; self.session keeps the
\* closed object
AExit ==
  /\ open_blocks > 0
  /\ open_blocks' = open_blocks - 1
  /\ session' = IF owned_session /\ session # "none" THEN "closed" ELSE session
  /\ UNCHANGED << owned_session, sent_on, client_cache, cacheVars, notClientVars >>

\* FPLClient._make_request for cache_key at the time now; ok is whether the
\* upstream answers without error.  self.session.get on None raises
\* AttributeError, on a closed session RuntimeError("Session is closed")
Request(cache_key, ok) ==
  LET CallOf(outcome) == [ key |-> cache_key, outcome |-> outcome, time |-> now,
                           blocks |-> open_blocks ]
  IN /\ IF is_cache_valid(client_cache, cache_expiry, cache_key, now)
        THEN /\ last_call' = CallOf("cached")
             /\ UNCHANGED << sent_on, client_cache, cache_expiry >>
        ELSE IF session = "none"
        THEN /\ last_call' = CallOf("failed")
             /\ sent_on' = "no session"
             /\ UNCHANGED << client_cache, cache_expiry >>
        ELSE IF session = "closed" \/ ~ok
        THEN /\ last_call' = CallOf("failed")
             /\ sent_on' = session
             /\ UNCHANGED << client_cache, cache_expiry >>
        ELSE /\ last_call' = CallOf("fetched")
             /\ sent_on' = session
             /\ client_cache' = client_cache \cup {cache_key}
             /\ cache_expiry' = set_cache(cache_expiry, cache_key, now)
     /\ UNCHANGED << now, session, owned_session, open_blocks, notClientVars >>

MakeRequest == \E cache_key \in ClientKeys, ok \in BOOLEAN : Request(cache_key, ok)

\* time.time() moves on between two calls
Tick ==
  /\ \E d \in TickSteps :
       /\ now + d <= MaxTime
       /\ now' = now + d
  /\ UNCHANGED << cache_expiry, last_call, client_cache, sessionVars, notClientVars >>

\* FPLClient.__init__, with or without a session handed in
InitClient ==
  /\ IdleOptimizer
  /\ call = "none"
  /\ pc = "client"
  /\ session \in {"none", "open"}
  /\ owned_session = FALSE
  /\ open_blocks = 0
  /\ sent_on = "none"
  /\ IdleCache
  /\ IdleCall /\ IdleSquad /\ IdleTransfer /\ IdleCaptain /\ IdleChips /\ IdleFixtures
  /\ IdleBatching

NextClient ==
  \/ AEnter
  \/ AExit
  \/ MakeRequest
  \/ Tick

SpecClient == InitClient /\ [][NextClient]_vars

\* C29: a network request issued inside an open `async with` block is sent on
\* a session that has not been closed
C29_RequestsOnOpenSession ==
  (last_call # << >> /\ last_call.outcome # "cached" /\ last_call.blocks > 0) =>
    sent_on # "closed"

\* C30: a call for a key stored less than cache_duration seconds ago is
\* answered from the cache without a request; a call for a key stored
\* cache_duration seconds ago or earlier fetches again; a failed request
\* leaves every cache entry and expiry unchanged
C30_CacheExpiry ==
  [][ \A k \in ClientKeys :
        (last_call' # last_call /\ last_call'.key = k) =>
          LET stored == k \in client_cache /\ k \in DOMAIN cache_expiry
              stored_at == cache_expiry[k] - cache_duration
          IN /\ (stored /\ now - stored_at < cache_duration) =>
                  /\ last_call'.outcome = "cached"
                  /\ UNCHANGED << sent_on, client_cache, cache_expiry >>
             /\ (stored /\ now - stored_at >= cache_duration) =>
                  /\ last_call'.outcome \in {"fetched", "failed"}
                  /\ sent_on' = session
             /\ (last_call'.outcome = "failed") =>
                  UNCHANGED << client_cache, cache_expiry >>
             /\ (last_call'.outcome = "fetched") =>
                  /\ k \in client_cache'
                  /\ cache_expiry'[k] = now + cache_duration ]_vars

\* a call 150 seconds after the store was answered from the cache while the
\* entry of the other key has expired
C30_Witness ==
  /\ last_call # << >>
  /\ last_call.outcome = "cached"
  /\ last_call.time >= 150
  /\ \E k \in client_cache : k # last_call.key /\ cache_expiry[k] <= now
====
